---- MODULE Spec2Model ----
(***************************************************************************)
(* A model of the mscfb compound-file reader (package mscfb): the          *)
(* directory traversal run by New, the Next/Read iterator of Reader, and   *)
(* the stream materializer (stream, truncate, compressChain, popStream,    *)
(* File.Read).                                                             *)
(*                                                                         *)
(* Machine words.  TLC's integers are 32-bit signed, so Go's uint32 and    *)
(* int64/uint64 cannot be carried at full width.  uint32 arithmetic is     *)
(* modelled modulo 2^WordBits and the 64-bit types as 2*WordBits wide; the *)
(* reserved sector numbers keep their distance from the top of the word    *)
(* (endOfChain = 2^w - 2, noStream = 2^w - 1, maxRegSect = 2^w - 6).       *)
(***************************************************************************)
EXTENDS Integers, Sequences, FiniteSets, TLC

\* ------------------------------------------------------------------ bounds
\* width of the modelled uint32 (see above)
WordBits == 14
\* number of sibling/child links a generated directory sets
MaxLinks == 2
\* calls to Next the model follows past the end of the directory
MaxPastEnd == 1

\* ------------------------------------------------------------- machine words
RECURSIVE Pow2(_)
Pow2(n) == IF n = 0 THEN 1 ELSE 2 * Pow2(n - 1)

U32 == Pow2(WordBits)
U64 == U32 * U32

\* conversion to uint32: the low word
ToU32(x) == x % U32
\* conversion of a uint64 to int64 / int: two's complement
ToI64(x) == IF x >= U64 \div 2 THEN x - U64 ELSE x

\* ---------------------------------------------------------------- constants
maxRegSect == U32 - 6
difatSect == U32 - 4
fatSect == U32 - 3
endOfChain == U32 - 2
freeSect == U32 - 1
noStream == U32 - 1

miniStreamSectorSize == 64
miniStreamCutoffSize == 4096

numHeaderDifats == 109
\* the eight bytes of signature as they lie in the file (little-endian)
signature == <<208, 207, 17, 224, 161, 177, 26, 225>>
lenHeader == 8 + 16 + 10 + 6 + 12 + 8 + 16 + numHeaderDifats * 4
dirEntrySize == 128

unknown == 0
storage == 1
stream == 2
rootStorage == 5

\* error values
ErrNil == "nil"
EOF == "io.EOF"
ErrRead == "ErrRead"
ErrBadDir == "ErrBadDir"
ErrSeek == "ErrSeek"
ErrFormat == "ErrFormat"

\* ------------------------------------------------------ directory entries
\* a loaded directory entry (File with its directoryEntryFields), as
\* setDirEntries and fixFile leave it
Entry(name, typ, l, r, c, start, size) ==
    [Name |-> name, objectType |-> typ, leftSibID |-> l, rightSibID |-> r,
     childID |-> c, startingSectorLoc |-> start, Size |-> size]

Dir(e) == Entry(e[1], IF e[5] = 0 THEN rootStorage ELSE storage,
                e[2], e[3], e[4], endOfChain, 0)

N0 == noStream

\* the 12-entry directory of TestTraverse
TestDir ==
    LET t == << <<"Root Node", N0, N0, 1, 0>>, <<"Alpha", N0, 2, N0, 1>>,
                <<"Bravo", N0, 3, 5, 2>>, <<"Charlie", N0, N0, 7, 3>>,
                <<"Delta", N0, N0, N0, 4>>, <<"Echo", 4, 6, 9, 5>>,
                <<"Foxtrot", N0, N0, N0, 6>>, <<"Golf", N0, N0, 10, 7>>,
                <<"Hotel", N0, N0, N0, 8>>, <<"Indigo", 8, N0, 11, 9>>,
                <<"Jello", N0, N0, N0, 10>>, <<"Kilo", N0, N0, N0, 11>> >>
    IN [i \in 0..11 |-> Dir(t[i + 1])]

\* storages nested four deep, the innermost holding two sibling storages
\* that each have a child
DeepDir ==
    LET t == << <<"Root Entry", N0, N0, 1, 0>>, <<"A", N0, N0, 2, 1>>,
                <<"B", N0, N0, 3, 2>>, <<"C", N0, N0, 4, 3>>,
                <<"D", N0, 5, 6, 4>>, <<"E", N0, N0, 7, 5>>,
                <<"X", N0, N0, N0, 6>>, <<"Y", N0, N0, N0, 7>> >>
    IN [i \in 0..7 |-> Dir(t[i + 1])]

\* generated directories: GenNames entries, at most MaxLinks links set, each
\* to an index of the array or to the first index past its end
GenNames == <<"Root Entry", "e1", "e2">>
NumGen == Len(GenNames)
Slots == (0..NumGen - 1) \X {"left", "right", "child"}
LinkVals == 0..NumGen

GenDir(S, v) ==
    [i \in 0..NumGen - 1 |->
        LET lk(f) == IF <<i, f>> \in S THEN v[<<i, f>>] ELSE noStream
        IN Entry(GenNames[i + 1], IF i = 0 THEN rootStorage ELSE storage,
                 lk("left"), lk("right"), lk("child"), endOfChain, 0)]

GenDirs ==
    UNION {{GenDir(S, v) : v \in [S -> LinkVals]} :
           S \in {T \in SUBSET Slots : Cardinality(T) <= MaxLinks}}

NumFiles(F) == Cardinality(DOMAIN F)

\* ------------------------------------------------------------ Go slices
\* A []string is a window [arr, len, cap] on a backing array of the heap;
\* the empty literal []string{} has no backing array (arr = 0, cap = 0).
EmptySlice == [arr |-> 0, len |-> 0, cap |-> 0]

\* the strings a slice holds
SliceVal(h, s) == IF s.len = 0 THEN <<>> ELSE SubSeq(h[s.arr], 1, s.len)

\* capacity of the array append allocates when the old one is full
GrowCap(oldcap, newlen) ==
    IF newlen > 2 * oldcap THEN newlen ELSE 2 * oldcap

\* append(s, x): writes in place when len < cap, else copies to a new array
AppendSlice(h, s, x) ==
    IF s.len < s.cap
    THEN [heap |-> [h EXCEPT ![s.arr][s.len + 1] = x],
          slice |-> [s EXCEPT !.len = s.len + 1]]
    ELSE LET nc == GrowCap(s.cap, s.len + 1)
             na == [k \in 1..nc |->
                      IF k <= s.len THEN h[s.arr][k]
                      ELSE IF k = s.len + 1 THEN x ELSE ""]
         IN [heap |-> Append(h, na),
             slice |-> [arr |-> Len(h) + 1, len |-> s.len + 1, cap |-> nc]]

\* ------------------------------------------------------------------ state
VARIABLES
    pc,        \* where New is: "start", "difats", "dir", "mini" (before
               \* setHeader, setDifats, setDirEntries, setMiniStream), "new"
               \* (before traverse), "traverse"; or how it ended: "open": New
               \* returned the reader; "failed": New returned the error err;
               \* "panic": run-time panic; "overflow": recursion without end;
               \* "hang": a loop that never ends; in RunsSpec "runs",
               \* "compressed", "popped"; in NameSpec "name", "named"
    File,      \* r.File: the directory array
    Path,      \* File[i].Path: the slice traverse stored
    fstream,   \* File[i].stream: nil, or the runs <<offset, length>> left
    indexes,   \* r.indexes
    idx, err,  \* locals of traverse; err also holds the error New returns
    stack,     \* activations of recurse, innermost last
    heap,      \* backing arrays of the path slices
    entry,     \* r.entry
    sectorSize,\* the package variable sectorSize
    hdr,       \* r.header: the header fields, difats, miniFatLocs,
               \* miniStreamLocs
    image,     \* the byte source: its header and its directory sectors
    disk,      \* the byte source: the 32-bit words of its FAT, mini FAT and
               \* DIFAT sectors by byte offset (every other word there is
               \* freeSect)
    fileLen,   \* the byte source: its length
    ret,       \* what the last call to Next or Read returned
    nextCalls, \* number of calls to Next so far
    iterDone,  \* Next has returned io.EOF
    delivered, \* per entry, the bytes its Reads returned so far, as runs of
               \* byte-source offsets
    io,        \* what the last call (New, Next or Read) asked of the byte
               \* source: reads, the <<offset, length>> of every read issued;
               \* sectors, the sector numbers the chain walks took as the
               \* sector to go to
    layout,    \* per entry, the sectors of its chain as the file was laid out
    loopSn     \* sn of the chain walk of setDirEntries or setMiniStream
               \* that New cannot leave (pc = "hang"); 0 otherwise

vars == <<pc, File, Path, fstream, indexes, idx, err, stack, heap, entry,
          sectorSize, hdr, image, disk, fileLen, ret, nextCalls, iterDone,
          delivered, io, layout, loopSn>>

\* the variables New and traverse leave alone
readerVars == <<fstream, entry, ret, nextCalls, iterDone, delivered, io>>
\* the byte source and what the header parser set
sourceVars == <<sectorSize, hdr, image, disk, fileLen, layout>>

\* op, file, n, err: the call and its results (file: the index of the entry
\* Next returned or Read read, -1 for none); len: len(b); writes: the runs of
\* the byte source written to b, from b[0] on; popped: the count popStream
\* returned; srcReads: calls of ReadAt; walked: Reader.stream was called;
\* set: the run list Reader.stream returned to this call, if it returned one;
\* srcErr: a ReadAt of File.Read returned an error
NoRet == [op |-> "none", file |-> -1, n |-> 0, err |-> ErrNil, len |-> 0,
          writes |-> <<>>, popped |-> 0, srcReads |-> 0, walked |-> FALSE,
          set |-> <<>>, srcErr |-> FALSE]

NoIO == [reads |-> {}, sectors |-> {}]

NilStream == [isNil |-> TRUE, runs |-> <<>>]
Runs(r) == [isNil |-> FALSE, runs |-> r]

\* ---------------------------------------------------------- file layouts
Range(a, b) == [k \in 1..(b - a + 1) |-> a + k - 1]

\* byte offset of the FAT (or mini FAT) word of sector sn in FAT sector fs of
\* a file with ss-byte sectors
FatWordAt(ss, fs, sn) == (fs + 1) * ss + (sn % (ss \div 4)) * 4
FatWordOff(fs, sn) == FatWordAt(512, fs, sn)

\* the FAT words that link the sectors of chain, the last to the value last
ChainFatTo(fs, chain, last) ==
    [o \in {FatWordOff(fs, chain[k]) : k \in DOMAIN chain} |->
        LET k == CHOOSE j \in DOMAIN chain : FatWordOff(fs, chain[j]) = o
        IN IF k = Len(chain) THEN last ELSE chain[k + 1]]

\* the FAT words that link the sectors of chain, the last to endOfChain
ChainFat(fs, chain) == ChainFatTo(fs, chain, endOfChain)

\* InitialDifats of a file whose only FAT sector is fs.  The model holds the
\* leading entries of a DIFAT; the entries after them are freeSect.
HeaderDifats(fs) == <<fs>>

\* the header fields makeHeader decodes
headerFields(major, shift, dirLoc, miniFatLoc, numMiniFat) ==
    [Signature |-> signature, MajorVersion |-> major, SectorSize |-> shift,
     DirectorySectorLoc |-> dirLoc, MiniFatSectorLoc |-> miniFatLoc,
     NumMiniFatSectors |-> numMiniFat, DifatSectorLoc |-> endOfChain,
     NumDifatSectors |-> 0, InitialDifats |-> HeaderDifats(0),
     NumFatSectors |-> 1]

RECURSIVE SeqMax(_)
SeqMax(q) == IF q = <<>> THEN 0
             ELSE LET m == SeqMax(Tail(q)) IN IF Head(q) > m THEN Head(q) ELSE m

\* A file: File, its directory entries slot by slot with the 8-byte size
\* field in Size; dirChain, the sectors of the directory; sectorBytes, the
\* sector size it was written with; layout, per slot the sectors of its chain.

\* a directory alone: FAT in sector 0, directory from sector 1, no ministream
DirScenario(F) ==
    LET chain == Range(1, (NumFiles(F) + 3) \div 4) IN
    [File |-> F,
     header |-> headerFields(3, 9, 1, endOfChain, 0),
     dirChain |-> chain,
     sectorBytes |-> 512,
     disk |-> ChainFat(0, chain) @@ ChainFat(0, <<0>>),
     fileLen |-> (Len(chain) + 2) * 512,
     layout |-> [i \in DOMAIN F |-> <<>>]]

\* root and one stream of the given size in the regular sectors of chain.  A
\* size that needs the upper half of the size field comes with major version
\* 4, which setHeader takes with any sector size.
RegularScenario(size, chain) ==
    [File |-> [i \in 0..1 |->
                 IF i = 0
                 THEN Entry("Root Entry", rootStorage, noStream, noStream, 1,
                            endOfChain, 0)
                 ELSE Entry("s", stream, noStream, noStream, noStream,
                            chain[1], size)],
     header |-> headerFields(IF size >= U32 THEN 4 ELSE 3, 9, 1, endOfChain, 0),
     dirChain |-> <<1>>,
     sectorBytes |-> 512,
     disk |-> ChainFat(0, chain) @@ ChainFat(0, <<1>>) @@ ChainFat(0, <<0>>),
     fileLen |-> (SeqMax(chain) + 2) * 512,
     layout |-> [i \in 0..1 |-> IF i = 0 THEN <<>> ELSE chain]]

\* sectors of the ministream, and of the mini FAT
MiniStreamSectors == <<3, 6>>
MiniFatSectors == <<2>>

\* root and one stream of the given size in the mini-sectors of chain
MiniScenario(size, chain) ==
    [File |-> [i \in 0..1 |->
                 IF i = 0
                 THEN Entry("Root Entry", rootStorage, noStream, noStream, 1,
                            MiniStreamSectors[1], 1024)
                 ELSE Entry("s", stream, noStream, noStream, noStream,
                            chain[1], size)],
     header |-> headerFields(3, 9, 1, MiniFatSectors[1], Len(MiniFatSectors)),
     dirChain |-> <<1>>,
     sectorBytes |-> 512,
     disk |-> ChainFat(MiniFatSectors[1], chain) @@ ChainFat(0, MiniStreamSectors)
              @@ ChainFat(0, MiniFatSectors) @@ ChainFat(0, <<1>>)
              @@ ChainFat(0, <<0>>),
     fileLen |-> (SeqMax(MiniStreamSectors) + 2) * 512,
     layout |-> [i \in 0..1 |-> IF i = 0 THEN MiniStreamSectors ELSE chain]]

\* injective sequences over S of the lengths in lens
InjSeqs(S, lens) ==
    UNION {{q \in [1..n -> S] : \A a, b \in 1..n : a # b => q[a] # q[b]} :
           n \in lens}

MiniPool == {0, 1, 7, 8}
MiniSizes == {1, 64, 100, 128, 150}
\* a size field of a version-3 file with junk in its upper half
JunkSize == 5 * U32 + 100
MiniScenarios ==
    {MiniScenario(sz, ch) : sz \in MiniSizes, ch \in InjSeqs(MiniPool, 1..3)}
    \cup {MiniScenario(JunkSize, <<0, 1>>), MiniScenario(JunkSize, <<7, 1, 8>>)}

\* files without a ministream: the root's starting sector, the header's mini
\* FAT sector, or the count of mini FAT sectors says so, the other two not
NoMiniScenarios ==
    LET base == MiniScenario(100, <<0, 1>>) IN
    {[base EXCEPT !.File[0].startingSectorLoc = endOfChain],
     [base EXCEPT !.header.MiniFatSectorLoc = endOfChain],
     [base EXCEPT !.header.NumMiniFatSectors = 0]}

\* the last sector whose byte offset fits the machine word, with 512-byte
\* sectors
LastFit == U32 \div 512 - 2

\* a size with the top bit of the 64-bit field set
HugeSize == U64 \div 2 + 600
RegularScenarios ==
    {RegularScenario(4096, Range(4, 11)),
     RegularScenario(4100, <<9, 4, 5, 6, 7, 12, 13, 20, 21>>),
     RegularScenario(4100, Range(LastFit - 8, LastFit)),
     RegularScenario(4096, Range(LastFit - 6, LastFit + 1)),
     \* chains shorter and longer than the size asks for
     RegularScenario(4608, <<4, 5, 6, 7, 12, 13, 20, 9>>),
     RegularScenario(4096, Range(4, 12)),
     RegularScenario(4096, Range(4, 14)),
     RegularScenario(HugeSize, <<4, 9>>),
     RegularScenario(HugeSize, <<4, 5>>),
     \* a file cut off in the middle of the stream
     [RegularScenario(4096, Range(4, 11)) EXCEPT !.fileLen = 8 * 512]}

Directories == {TestDir, DeepDir} \cup GenDirs

\* a directory of three entries without links
PlainDir == GenDir({}, <<>>)

\* headers: a wrong signature, a file shorter than the header, sector shifts
\* and major versions in every combination, a directory sector past the end
HeaderScenarios ==
    LET base == DirScenario(PlainDir) IN
    {[base EXCEPT !.header.Signature[k] = 0] : k \in {1, 8}}
    \cup {[base EXCEPT !.fileLen = 100],
          [base EXCEPT !.fileLen = 100, !.header.Signature[3] = 0],
          [base EXCEPT !.header.DirectorySectorLoc = 40]}
    \cup {[base EXCEPT !.header.MajorVersion = m, !.header.SectorSize = sh] :
             m \in {3, 4}, sh \in {9, 10, 12}}

\* a version-4 file: 4096-byte sectors, FAT in sector 0, directory in sector
\* 1, one stream in sector 2
V4Scenario ==
    [File |-> [i \in 0..1 |->
                 IF i = 0
                 THEN Entry("Root Entry", rootStorage, noStream, noStream, 1,
                            endOfChain, 0)
                 ELSE Entry("s", stream, noStream, noStream, noStream, 2, 4096)],
     header |-> headerFields(4, 12, 1, endOfChain, 0),
     dirChain |-> <<1>>,
     sectorBytes |-> 4096,
     disk |-> [o \in {FatWordAt(4096, 0, sn) : sn \in 0..2} |-> endOfChain],
     fileLen |-> 4 * 4096,
     layout |-> [i \in 0..1 |-> IF i = 0 THEN <<>> ELSE <<2>>]]

\* sector numbers above maxRegSect other than endOfChain
Reserved == {freeSect, fatSect, difatSect, U32 - 5}

\* chains whose last link is a reserved number: of the directory, of the
\* ministream, of a stream in the FAT and of a stream in the mini FAT
ReservedLinkScenarios ==
    UNION {{[DirScenario(PlainDir) EXCEPT !.disk = ChainFatTo(0, <<1>>, t) @@ @],
            [MiniScenario(100, <<0, 1>>) EXCEPT
                !.disk = ChainFatTo(0, MiniStreamSectors, t) @@ @],
            [RegularScenario(4608, <<4, 5, 6, 7, 12, 13, 20, 9>>) EXCEPT
                !.disk = ChainFatTo(0, <<20, 9>>, t) @@ @],
            [RegularScenario(4100, <<9, 4, 5, 6, 7, 12, 13, 20, 21>>) EXCEPT
                !.disk = ChainFatTo(0, <<20, 21>>, t) @@ @],
            [MiniScenario(150, <<0, 1>>) EXCEPT
                !.disk = ChainFatTo(MiniFatSectors[1], <<0, 1>>, t) @@ @],
            [MiniScenario(100, <<7, 8>>) EXCEPT
                !.disk = ChainFatTo(MiniFatSectors[1], <<7, 8>>, t) @@ @]} :
           t \in Reserved}

\* files with DIFAT sectors: the chain of DIFAT sectors difatChain, each
\* naming one more FAT sector (numbered from 9 on) in its first entry, and
\* numFat in the header's count of FAT sectors
DifatWords(difatChain) ==
    [o \in UNION {{(difatChain[k] + 1) * 512, (difatChain[k] + 1) * 512 + 508} :
                     k \in DOMAIN difatChain} |->
        LET k == CHOOSE j \in DOMAIN difatChain :
                     o \in {(difatChain[j] + 1) * 512, (difatChain[j] + 1) * 512 + 508}
        IN IF o = (difatChain[k] + 1) * 512 THEN 8 + k
           ELSE IF k = Len(difatChain) THEN endOfChain ELSE difatChain[k + 1]]
DifatScenario(difatChain, numFat) ==
    LET base == DirScenario(PlainDir) IN
    [base EXCEPT !.header.DifatSectorLoc = difatChain[1],
                 !.header.NumDifatSectors = Len(difatChain),
                 !.header.NumFatSectors = numFat,
                 !.disk = DifatWords(difatChain) @@ @,
                 !.fileLen = (SeqMax(difatChain) + 2) * 512]
DifatScenarios ==
    {DifatScenario(ch, nf) : ch \in {<<4>>, <<4, 6>>, <<8, 4>>},
                             nf \in {1, 109, 109 + 127}}
    \* a count of DIFAT sectors that the 32-bit arithmetic cannot hold
    \cup {[DifatScenario(<<4>>, 1) EXCEPT !.header.NumDifatSectors = U32 - 1]}

\* a stream whose chain links sector 4 to a sector of the second FAT sector,
\* in a file with one FAT sector: the DIFAT entry of that FAT sector is
\* freeSect
FreeFatScenarios ==
    {[RegularScenario(4608, <<4>>) EXCEPT
         !.disk = ChainFatTo(0, <<4>>, 512 \div 4 + 2) @@ @]}

\* a mini FAT that the header places past the end of the file
MiniFatPastEndScenarios ==
    {[MiniScenario(100, <<0, 1>>) EXCEPT !.header.MiniFatSectorLoc = 20]}

\* directories with an unallocated slot (object type 0): below the entries
\* that the sibling and child IDs name, and above them
Unallocated == Entry("", unknown, 0, 0, 0, 0, 0)
GapDir ==
    [i \in 0..3 |->
        IF i = 0 THEN Entry("Root Entry", rootStorage, N0, N0, 2, endOfChain, 0)
        ELSE IF i = 1 THEN Unallocated
        ELSE IF i = 2 THEN Entry("e2", storage, N0, 3, N0, endOfChain, 0)
        ELSE Entry("e3", storage, N0, N0, N0, endOfChain, 0)]
TailGapDir ==
    [i \in 0..3 |->
        IF i = 0 THEN Entry("Root Entry", rootStorage, N0, N0, 1, endOfChain, 0)
        ELSE IF i = 1 THEN Entry("e1", storage, N0, 2, N0, endOfChain, 0)
        ELSE IF i = 2 THEN Entry("e2", storage, N0, N0, N0, endOfChain, 0)
        ELSE Unallocated]
GapScenarios == {DirScenario(GapDir), DirScenario(TailGapDir)}

\* chains whose FAT links form a cycle: the directory chain (three sectors,
\* the last linked to the first; one sector linked to itself) and the
\* ministream chain (the last sector linked to the first)
CycleScenarios ==
    {[DirScenario(TestDir) EXCEPT !.disk = ChainFatTo(0, Range(1, 3), 1) @@ @],
     [DirScenario(PlainDir) EXCEPT !.disk = ChainFatTo(0, <<1>>, 1) @@ @],
     [MiniScenario(100, <<0, 1>>) EXCEPT
         !.disk = ChainFatTo(0, MiniStreamSectors, MiniStreamSectors[1]) @@ @]}

Scenarios ==
    {DirScenario(F) : F \in Directories} \cup MiniScenarios \cup RegularScenarios
    \cup HeaderScenarios \cup {V4Scenario} \cup ReservedLinkScenarios
    \cup NoMiniScenarios \cup DifatScenarios \cup FreeFatScenarios
    \cup MiniFatPastEndScenarios \cup GapScenarios \cup CycleScenarios

\* the directory sectors of a file by byte offset, each the slots it holds
DirSectors(sc) ==
    LET per == sc.sectorBytes \div dirEntrySize IN
    [o \in {(sc.dirChain[k] + 1) * sc.sectorBytes : k \in DOMAIN sc.dirChain} |->
        LET k == CHOOSE j \in DOMAIN sc.dirChain :
                     (sc.dirChain[j] + 1) * sc.sectorBytes = o
        IN [j \in 1..per |->
               LET i == (k - 1) * per + j - 1
               IN IF i \in DOMAIN sc.File THEN sc.File[i]
                  ELSE Entry("", unknown, 0, 0, 0, 0, 0)]]

\* r.header before setHeader
NilHeader ==
    [Signature |-> <<>>, MajorVersion |-> 0, SectorSize |-> 0,
     DirectorySectorLoc |-> 0, MiniFatSectorLoc |-> 0, NumMiniFatSectors |-> 0,
     DifatSectorLoc |-> 0, NumDifatSectors |-> 0, InitialDifats |-> <<>>,
     difats |-> <<>>, difatsLen |-> 0, miniFatLocs |-> <<>>,
     miniStreamLocs |-> <<>>, NumFatSectors |-> 0]

\* binary.LittleEndian.Uint32 of four bytes, in the machine word of the model
LittleEndian(b0, b1, b2, b3) ==
    ToU32(b0 + 256 * b1 + (65536 % U32) * b2 + (16777216 % U32) * b3)

\* the 32-bit word at an offset of the header, laid out as makeHeader reads
\* it (minor version 0x3E, byte order 0xFFFE, mini sector shift 6, cutoff
\* 4096, the fields the reader ignores zero)
HeaderWordAt(h, off) ==
    IF off \in {0, 4}
    THEN LittleEndian(h.Signature[off + 1], h.Signature[off + 2],
                      h.Signature[off + 3], h.Signature[off + 4])
    ELSE IF off = 24 THEN ToU32(62 + (65536 % U32) * h.MajorVersion)
    ELSE IF off = 28 THEN ToU32(65534 + (65536 % U32) * h.SectorSize)
    ELSE IF off = 32 THEN 6
    ELSE IF off = 44 THEN h.NumFatSectors
    ELSE IF off = 48 THEN h.DirectorySectorLoc
    ELSE IF off = 56 THEN ToU32(miniStreamCutoffSize)
    ELSE IF off = 60 THEN h.MiniFatSectorLoc
    ELSE IF off = 64 THEN h.NumMiniFatSectors
    ELSE IF off = 68 THEN h.DifatSectorLoc
    ELSE IF off = 72 THEN h.NumDifatSectors
    ELSE IF off >= 76 /\ (off - 76) \div 4 < Len(h.InitialDifats)
         THEN h.InitialDifats[(off - 76) \div 4 + 1]
    ELSE IF off >= 76 THEN freeSect
    ELSE 0

\* the words of the header as the byte source holds them
HeaderWords(h) == [off \in 0..(lenHeader - 1) |-> HeaderWordAt(h, off)]

\* New has been called on a byte source
InitOn(files) ==
    \E sc \in files :
        /\ image = [header |-> sc.header, dirs |-> DirSectors(sc)]
        /\ disk = sc.disk @@ HeaderWords(sc.header)
        /\ fileLen = sc.fileLen
        /\ layout = sc.layout
        /\ sectorSize = 0
        /\ hdr = NilHeader
        /\ pc = "start"
        /\ File = <<>>
        /\ Path = <<>>
        /\ fstream = <<>>
        /\ delivered = <<>>
        /\ indexes = <<>>
        /\ idx = 0
        /\ err = ErrNil
        /\ stack = <<>>
        /\ heap = <<>>
        /\ entry = 0
        /\ ret = NoRet
        /\ nextCalls = 0
        /\ iterDone = FALSE
        /\ io = NoIO
        /\ loopSn = 0

Init == InitOn(Scenarios)

\* ---------------------------------------------------------------- traverse
Frame(i, path, at) == [i |-> i, path |-> path, at |-> at]
Top == stack[Len(stack)]
Pop == SubSeq(stack, 1, Len(stack) - 1)
SetTop(at) == [stack EXCEPT ![Len(stack)].at = at]

\* r.indexes = make([]int, len(r.File)); recurse(0, []string{})
Traverse ==
    /\ pc = "new"
    /\ pc' = "traverse"
    /\ indexes' = [i \in 0..NumFiles(File) - 1 |-> 0]
    /\ idx' = 0
    /\ err' = ErrNil
    /\ stack' = <<Frame(0, EmptySlice, "enter")>>
    /\ UNCHANGED <<loopSn, File, Path, heap, readerVars, sourceVars>>

\* the activations at the top of the stack that wait for their left
\* sibling's call to return: nothing was recorded since the lowest was entered
RECURSIVE LeftChain(_, _)
LeftChain(st, k) ==
    IF k = 0 THEN {}
    ELSE IF k = Len(st) \/ st[k].at = "record"
         THEN {st[k].i} \cup LeftChain(st, k - 1)
         ELSE {}

\* entry of recurse: the range check and the call for the left sibling
RecurseEnter ==
    /\ pc = "traverse" /\ stack # <<>> /\ Top.at = "enter"
    /\ IF Top.i < 0 \/ Top.i >= NumFiles(File)
       THEN /\ err' = ErrBadDir
            /\ stack' = Pop
            /\ pc' = pc
       ELSE LET left == File[Top.i].leftSibID IN
            /\ err' = err
            /\ IF left = noStream
               THEN stack' = SetTop("record") /\ pc' = pc
               ELSE IF left \in LeftChain(stack, Len(stack))
                    \* the same call is made again with nothing changed
                    THEN stack' = stack /\ pc' = "overflow"
                    ELSE /\ stack' = Append(SetTop("record"),
                                            Frame(left, Top.path, "enter"))
                         /\ pc' = pc
    /\ UNCHANGED <<loopSn, File, Path, indexes, idx, heap, readerVars, sourceVars>>

\* r.indexes[idx] = i; file.Path = path; idx++; the call for the child
RecurseRecord ==
    /\ pc = "traverse" /\ stack # <<>> /\ Top.at = "record"
    /\ IF idx >= NumFiles(File)
       THEN /\ pc' = "panic"
            /\ UNCHANGED <<indexes, Path, idx, stack, heap>>
       ELSE LET i == Top.i
                child == File[i].childID
                ap == AppendSlice(heap, Top.path, File[i].Name)
            IN
            /\ pc' = pc
            /\ indexes' = [indexes EXCEPT ![idx] = i]
            /\ Path' = [Path EXCEPT ![i] = Top.path]
            /\ idx' = idx + 1
            /\ IF child = noStream
               THEN stack' = SetTop("right") /\ heap' = heap
               ELSE IF i > 0
                    THEN /\ heap' = ap.heap
                         /\ stack' = Append(SetTop("right"),
                                            Frame(child, ap.slice, "enter"))
                    ELSE /\ heap' = heap
                         /\ stack' = Append(SetTop("right"),
                                            Frame(child, Top.path, "enter"))
    /\ UNCHANGED <<loopSn, File, err, readerVars, sourceVars>>

\* recurse without the call for the right sibling
RecurseRightSkipped ==
    /\ pc = "traverse" /\ stack # <<>> /\ Top.at = "right"
    /\ stack' = Pop
    /\ UNCHANGED <<loopSn, pc, File, Path, indexes, idx, err, heap, readerVars, sourceVars>>

\* the call for the right sibling, or the return when there is none
RecurseRight ==
    /\ pc = "traverse" /\ stack # <<>> /\ Top.at = "right"
    /\ LET right == File[Top.i].rightSibID IN
       IF right = noStream
       THEN stack' = Pop
       ELSE stack' = Append(SetTop("return"), Frame(right, Top.path, "enter"))
    /\ UNCHANGED <<loopSn, pc, File, Path, indexes, idx, err, heap, readerVars, sourceVars>>

RecurseReturn ==
    /\ pc = "traverse" /\ stack # <<>> /\ Top.at = "return"
    /\ stack' = Pop
    /\ UNCHANGED <<loopSn, pc, File, Path, indexes, idx, err, heap, readerVars, sourceVars>>

\* traverse returns err, and New the reader or the error
NewReturn ==
    /\ pc = "traverse" /\ stack = <<>>
    /\ pc' = IF err = ErrNil THEN "open" ELSE "failed"
    /\ UNCHANGED <<loopSn, File, Path, indexes, idx, err, stack, heap, readerVars, sourceVars>>

\* ------------------------------------------------------------------- Next
\* r.entry++; io.EOF past the end, else r.File[r.indexes[r.entry]]
Next ==
    /\ pc = "open"
    /\ entry < NumFiles(File) + MaxPastEnd
    /\ entry' = entry + 1
    /\ nextCalls' = nextCalls + 1
    /\ ret' = IF entry' >= NumFiles(File)
              THEN [NoRet EXCEPT !.op = "Next", !.err = EOF]
              ELSE [NoRet EXCEPT !.op = "Next", !.file = indexes[entry']]
    /\ iterDone' = (iterDone \/ entry' >= NumFiles(File))
    /\ io' = NoIO
    /\ UNCHANGED <<loopSn, pc, File, Path, fstream, indexes, idx, err, stack, heap,
                   delivered, sourceVars>>

\* ---------------------------------------------------------- byte source
\* io.ReaderAt.ReadAt(p, off) with len(p) = length: the bytes read, and an
\* error when they are fewer than asked for
SourceReadAt(off, length) ==
    IF length = 0 \/ off + length <= fileLen
    THEN [n |-> length, err |-> ErrNil]
    ELSE [n |-> IF off < fileLen THEN fileLen - off ELSE 0, err |-> EOF]

\* the little-endian 32-bit word at a byte offset
WordAt(off) == IF off \in DOMAIN disk THEN disk[off] ELSE freeSect

\* r.readAt(offset, 4) and binary.LittleEndian.Uint32 of what it returns
readAt(offset) ==
    IF SourceReadAt(offset, 4).err # ErrNil
    THEN [val |-> 0, err |-> ErrRead]
    ELSE [val |-> WordAt(offset), err |-> ErrNil]

\* ---------------------------------------------------------------- offsets
\* fileOffset with the sector size of the reader's own header
fileOffsetOwnSize(sn) == ToU32((sn + 1) * Pow2(hdr.SectorSize))
fileOffset(sn) == ToU32((sn + 1) * sectorSize)

getOffset(sn, mini) ==
    IF mini
    THEN LET num == sectorSize \div 64
             sec == sn \div num
             dif == sn % num
         IN IF sec >= Len(hdr.miniStreamLocs)
            THEN [off |-> 0, err |-> ErrRead]
            ELSE [off |-> ToU32((hdr.miniStreamLocs[sec + 1] + 1) * sectorSize
                                + dif * 64),
                  err |-> ErrNil]
    ELSE [off |-> fileOffset(sn), err |-> ErrNil]

\* len(r.header.difats) and r.header.difats[k]
difatsLen == hdr.difatsLen
difatsAt(k) == IF k < Len(hdr.difats) THEN hdr.difats[k + 1] ELSE freeSect

\* the next sector of a chain, from the FAT or the mini FAT
findNext(sn, mini) ==
    LET entries == sectorSize \div 4
        index == sn \div entries
    IN IF index < 0 \/ index >= (IF mini THEN Len(hdr.miniFatLocs) ELSE difatsLen)
       THEN [val |-> 0, err |-> ErrSeek]
       ELSE LET sect == IF mini THEN hdr.miniFatLocs[index + 1]
                        ELSE difatsAt(index)
                fatIndex == sn % entries
            IN readAt(fileOffset(sect) + ToU32(fatIndex * 4))

\* the byte offset findNext reads at, when it reads
findNextReads(sn, mini) ==
    IF findNext(sn, mini).err = ErrSeek THEN {}
    ELSE LET entries == sectorSize \div 4
             index == sn \div entries
             sect == IF mini THEN hdr.miniFatLocs[index + 1] ELSE difatsAt(index)
         IN {<<fileOffset(sect) + ToU32((sn % entries) * 4), 4>>}

\* -------------------------------------------------------------------- New
\* uint32(1 << ss)
setSectorSize(ss) == IF ss >= WordBits THEN 0 ELSE Pow2(ss)

\* what New leaves alone until the directory is loaded
loadFrame == <<File, Path, fstream, delivered, indexes, idx, stack, heap, entry,
               ret, nextCalls, iterDone, image, disk, fileLen, layout>>

\* the sanity check of setHeader
signatureUnchecked(h) == TRUE
signatureOK(h) == h.Signature = signature

\* setHeader: read the header, check the signature, set the sector size
SetHeader ==
    /\ pc = "start"
    /\ io' = [io EXCEPT !.reads = @ \cup {<<0, lenHeader>>}]
    /\ IF SourceReadAt(0, lenHeader).err # ErrNil
       THEN /\ pc' = "failed" /\ err' = ErrRead
            /\ UNCHANGED <<hdr, sectorSize>>
       ELSE /\ hdr' = [NilHeader EXCEPT
                          !.Signature = image.header.Signature,
                          !.MajorVersion = image.header.MajorVersion,
                          !.SectorSize = image.header.SectorSize,
                          !.DirectorySectorLoc = image.header.DirectorySectorLoc,
                          !.MiniFatSectorLoc = image.header.MiniFatSectorLoc,
                          !.NumMiniFatSectors = image.header.NumMiniFatSectors,
                          !.DifatSectorLoc = image.header.DifatSectorLoc,
                          !.NumDifatSectors = image.header.NumDifatSectors,
                          !.InitialDifats = image.header.InitialDifats,
                          !.NumFatSectors = image.header.NumFatSectors]
            /\ IF ~signatureOK(image.header)
               THEN /\ pc' = "failed" /\ err' = ErrFormat
                    /\ UNCHANGED sectorSize
               ELSE /\ sectorSize' = setSectorSize(image.header.SectorSize)
                    /\ pc' = "difats" /\ err' = err
    /\ UNCHANGED <<loopSn, loadFrame>>

\* a DIFAT as the model holds it: without the freeSect entries at its end
RECURSIVE TrimFree(_)
TrimFree(q) ==
    IF q # <<>> /\ q[Len(q)] = freeSect THEN TrimFree(SubSeq(q, 1, Len(q) - 1))
    ELSE q

\* the loop of setDifats over the DIFAT sectors
RECURSIVE difatLoop(_, _, _, _, _)
difatLoop(i, off, d, len, rds) ==
    IF i >= hdr.NumDifatSectors
    THEN [err |-> ErrNil, difats |-> d, len |-> len, reads |-> rds]
    ELSE LET rds2 == rds \cup {<<off, sectorSize>>} IN
         IF SourceReadAt(off, sectorSize).err # ErrNil
         THEN [err |-> ErrRead, difats |-> d, len |-> len, reads |-> rds2]
         ELSE LET n == sectorSize \div 4 - 1
                  full == [k \in 1..(len + n) |->
                              IF k <= Len(d) THEN d[k]
                              ELSE IF k <= len THEN freeSect
                              ELSE WordAt(off + (k - len - 1) * 4)]
              IN difatLoop(i + 1, WordAt(off + sectorSize - 4), TrimFree(full),
                           len + n, rds2)

\* setDifats: the 109 entries of the header, then those of the DIFAT sectors
SetDifats ==
    /\ pc = "difats"
    /\ IF hdr.NumDifatSectors = 0
       THEN /\ hdr' = [hdr EXCEPT !.difats = hdr.InitialDifats,
                                  !.difatsLen = numHeaderDifats]
            /\ pc' = "dir"
            /\ UNCHANGED <<err, io>>
       ELSE IF ToU32(hdr.NumDifatSectors * (sectorSize \div 4) + numHeaderDifats)
                   < numHeaderDifats
            \* make: cap out of range
            THEN pc' = "panic" /\ UNCHANGED <<hdr, err, io>>
            ELSE LET r == difatLoop(0, hdr.DifatSectorLoc, hdr.InitialDifats,
                                    numHeaderDifats, io.reads)
                 IN /\ hdr' = [hdr EXCEPT !.difats = r.difats, !.difatsLen = r.len]
                    /\ io' = [io EXCEPT !.reads = r.reads]
                    /\ err' = r.err
                    /\ pc' = IF r.err = ErrNil THEN "dir" ELSE "failed"
    /\ UNCHANGED <<loopSn, sectorSize, loadFrame>>

\* fixFile: the size is the whole field from major version 4 on, else its
\* low 32 bits
fixFileAnyVersion(v, f) == f
fixFile(v, f) == IF v > 3 THEN f ELSE [f EXCEPT !.Size = f.Size % U32]

\* the directory entry in the 128 bytes at byte offset pos.  What is not a
\* directory sector decodes to entries the model does not follow: every walk
\* that reads one ends in an error and New drops r.File.
SlotAt(pos) ==
    LET here == {o \in DOMAIN image.dirs :
                    o <= pos /\ pos < o + Len(image.dirs[o]) * dirEntrySize}
    IN IF here = {} THEN Entry("", unknown, 0, 0, 0, 0, 0)
       ELSE LET o == CHOOSE x \in here : TRUE
            IN image.dirs[o][(pos - o) \div dirEntrySize + 1]

\* the entries of the sector at off that are not unallocated, fixed
RECURSIVE sectorEntries(_, _, _)
sectorEntries(off, i, num) ==
    IF i >= num THEN <<>>
    ELSE LET f == SlotAt(off + i * dirEntrySize)
         IN (IF f.objectType # unknown THEN <<fixFile(hdr.MajorVersion, f)>>
             ELSE <<>>) \o sectorEntries(off, i + 1, num)

\* the loop of setDirEntries over the directory chain; seen: the sectors it
\* has been at (the walk never ends once it is at one of them again)
RECURSIVE dirLoop(_, _, _, _)
dirLoop(sn, fs, tr, seen) ==
    IF sn = endOfChain THEN [end |-> "ok", err |-> ErrNil, fs |-> fs, io |-> tr, sn |-> sn]
    ELSE IF sn \in seen THEN [end |-> "hang", err |-> ErrNil, fs |-> fs, io |-> tr,
                          sn |-> sn]
    ELSE LET off == fileOffset(sn)
             tr2 == [reads |-> tr.reads \cup {<<off, sectorSize>>},
                     sectors |-> tr.sectors \cup {sn}]
         IN IF SourceReadAt(off, sectorSize).err # ErrNil
            THEN [end |-> "err", err |-> ErrRead, fs |-> fs, io |-> tr2, sn |-> sn]
            ELSE LET fs2 == fs \o sectorEntries(off, 0, sectorSize \div dirEntrySize)
                     nx == findNext(sn, FALSE)
                     tr3 == [tr2 EXCEPT !.reads = @ \cup findNextReads(sn, FALSE)]
                 IN IF nx.err # ErrNil
                    THEN [end |-> "err", err |-> nx.err, fs |-> fs2, io |-> tr3,
                          sn |-> sn]
                    ELSE dirLoop(nx.val, fs2, tr3, seen \cup {sn})

\* setDirEntries: r.File, the allocated entries of the directory chain
SetDirEntries ==
    /\ pc = "dir"
    /\ LET r == dirLoop(hdr.DirectorySectorLoc, <<>>, io, {})
           n == Len(r.fs)
       IN /\ io' = r.io
          /\ loopSn' = IF r.end = "hang" THEN r.sn ELSE loopSn
          /\ IF r.end = "ok"
             THEN /\ File' = [i \in 0..n - 1 |-> r.fs[i + 1]]
                  /\ Path' = [i \in 0..n - 1 |-> EmptySlice]
                  /\ fstream' = [i \in 0..n - 1 |-> NilStream]
                  /\ delivered' = [i \in 0..n - 1 |-> <<>>]
                  /\ pc' = "mini" /\ err' = err
             ELSE /\ pc' = IF r.end = "hang" THEN "hang" ELSE "failed"
                  /\ err' = r.err
                  /\ UNCHANGED <<File, Path, fstream, delivered>>
    /\ UNCHANGED <<sectorSize, hdr, indexes, idx, stack, heap, entry, ret,
                   nextCalls, iterDone, image, disk, fileLen, layout>>

\* the first loop of setMiniStream: the sectors of the mini FAT
RECURSIVE miniFatLoop(_, _, _, _)
miniFatLoop(i, c, locs, rds) ==
    IF i >= c THEN [err |-> ErrNil, locs |-> locs, reads |-> rds]
    ELSE LET nx == findNext(locs[i], FALSE)
             rds2 == rds \cup findNextReads(locs[i], FALSE)
         IN IF nx.err # ErrNil THEN [err |-> nx.err, locs |-> locs, reads |-> rds2]
            ELSE miniFatLoop(i + 1, c, Append(locs, nx.val), rds2)

\* the second loop of setMiniStream: the sectors of the ministream
RECURSIVE miniStreamLoop(_, _, _)
miniStreamLoop(sn, locs, tr) ==
    IF sn = endOfChain THEN [end |-> "ok", err |-> ErrNil, locs |-> locs, io |-> tr,
                              sn |-> sn]
    ELSE IF sn \in tr.sectors
         THEN [end |-> "hang", err |-> ErrNil, locs |-> locs, io |-> tr, sn |-> sn]
    ELSE LET nx == findNext(sn, FALSE)
             tr2 == [reads |-> tr.reads \cup findNextReads(sn, FALSE),
                     sectors |-> tr.sectors \cup {sn}]
         IN IF nx.err # ErrNil
            THEN [end |-> "err", err |-> nx.err, locs |-> Append(locs, sn), io |-> tr2,
                  sn |-> sn]
            ELSE miniStreamLoop(nx.val, Append(locs, sn), tr2)

\* setMiniStream: r.header.miniFatLocs and r.header.miniStreamLocs
SetMiniStream ==
    /\ pc = "mini"
    /\ IF NumFiles(File) = 0
       \* r.File[0]: index out of range
       THEN pc' = "panic" /\ UNCHANGED <<hdr, err, io, loopSn>>
       ELSE IF File[0].startingSectorLoc = endOfChain
               \/ hdr.MiniFatSectorLoc = endOfChain
            THEN pc' = "new" /\ UNCHANGED <<hdr, err, io, loopSn>>
       ELSE IF hdr.NumMiniFatSectors = 0
            \* r.header.miniFatLocs[0]: index out of range
            THEN pc' = "panic" /\ UNCHANGED <<hdr, err, io, loopSn>>
       ELSE LET mf == miniFatLoop(1, hdr.NumMiniFatSectors,
                                  <<hdr.MiniFatSectorLoc>>, io.reads)
                ms == miniStreamLoop(File[0].startingSectorLoc, <<>>,
                                     [reads |-> mf.reads, sectors |-> {}])
            IN IF mf.err # ErrNil
               THEN /\ pc' = "failed" /\ err' = mf.err
                    /\ hdr' = [hdr EXCEPT !.miniFatLocs = mf.locs]
                    /\ io' = [io EXCEPT !.reads = mf.reads]
                    /\ loopSn' = loopSn
               ELSE /\ hdr' = [hdr EXCEPT !.miniFatLocs = mf.locs,
                                          !.miniStreamLocs = ms.locs]
                    /\ io' = [reads |-> ms.io.reads,
                              sectors |-> io.sectors \cup ms.io.sectors]
                    /\ err' = ms.err
                    /\ loopSn' = IF ms.end = "hang" THEN ms.sn ELSE loopSn
                    /\ pc' = IF ms.end = "ok" THEN "new"
                             ELSE IF ms.end = "hang" THEN "hang" ELSE "failed"
    /\ UNCHANGED <<sectorSize, loadFrame>>

\* ------------------------------------------------------------------ runs
\* a run is <<offset, length>>
RECURSIVE compressLoop(_, _, _, _)
compressLoop(locs, i, x, l) ==
    IF ~(i < l /\ x + 1 < Len(locs)) THEN locs
    ELSE IF locs[x + 1][1] + locs[x + 1][2] = locs[x + 2][1]
         THEN compressLoop(
                  [k \in 1..Len(locs) - 1 |->
                      IF k < x + 1 THEN locs[k]
                      ELSE IF k = x + 1
                           THEN <<locs[k][1], locs[k][2] + locs[k + 1][2]>>
                           ELSE locs[k + 1]],
                  i + 1, x, l)
         ELSE compressLoop(locs, i + 1, x + 1, l)

\* compressChain stepping on after every merge
RECURSIVE compressLoopStepping(_, _, _, _)
compressLoopStepping(locs, i, x, l) ==
    IF ~(i < l /\ x + 1 < Len(locs)) THEN locs
    ELSE IF locs[x + 1][1] + locs[x + 1][2] = locs[x + 2][1]
         THEN compressLoopStepping(
                  [k \in 1..Len(locs) - 1 |->
                      IF k < x + 1 THEN locs[k]
                      ELSE IF k = x + 1
                           THEN <<locs[k][1], locs[k][2] + locs[k + 1][2]>>
                           ELSE locs[k + 1]],
                  i + 1, x + 1, l)
         ELSE compressLoopStepping(locs, i + 1, x + 1, l)
compressChainStepping(locs) == compressLoopStepping(locs, 0, 0, Len(locs))

compressChain(locs) == compressLoop(locs, 0, 0, Len(locs))

truncate(locs, sz) ==
    LET remainder == Len(locs) * locs[1][2] - ToI64(sz)
    IN [locs EXCEPT ![Len(locs)][2] = @ - remainder]

\* (tr: the reads issued and the sectors gone to so far)
RECURSIVE streamLoop(_, _, _, _, _, _, _, _, _)
streamLoop(i, l, chain, sn, offset, s, sz, mini, tr) ==
    IF i >= l
    THEN Runs(compressChain(truncate(chain, sz))) @@ [err |-> ErrNil, io |-> tr]
    ELSE LET chain2 == Append(chain, <<offset, s>>)
             nx == findNext(sn, mini)
             tr2 == [tr EXCEPT !.reads = @ \cup findNextReads(sn, mini)]
         IN IF nx.err # ErrNil THEN NilStream @@ [err |-> nx.err, io |-> tr2]
            ELSE IF nx.val = endOfChain
                 THEN Runs(compressChain(truncate(chain2, sz)))
                      @@ [err |-> ErrNil, io |-> tr2]
                 ELSE LET o == getOffset(nx.val, mini)
                          tr3 == [tr2 EXCEPT !.sectors = @ \cup {nx.val}]
                      IN IF o.err # ErrNil THEN NilStream @@ [err |-> o.err, io |-> tr3]
                         ELSE streamLoop(i + 1, l, chain2, nx.val, o.off, s, sz,
                                         mini, tr3)

\* Reader.stream: the runs of the chain that starts at sn, cut to sz bytes
ReaderStream(sn, sz, mini) ==
    LET l == IF mini THEN ToI64(sz) \div 64 + 1
             ELSE ToU32(sz) \div sectorSize + 1
        s == IF mini THEN 64 ELSE sectorSize
        o == getOffset(sn, mini)
        tr == [reads |-> {}, sectors |-> {sn}]
    IN IF o.err # ErrNil THEN NilStream @@ [err |-> o.err, io |-> tr]
       ELSE streamLoop(0, l, <<>>, sn, o.off, s, sz, mini, tr)

RECURSIVE popLoop(_, _, _, _)
popLoop(st, s, i, total) ==
    IF i > Len(st) THEN [pop |-> st, n |-> total, rest |-> <<>>]
    ELSE LET t == total + st[i][2] IN
         IF s < t
         THEN LET dif == t - s
                  pop == [SubSeq(st, 1, i) EXCEPT ![i][2] = @ - dif]
              IN [pop |-> pop, n |-> s,
                  rest |-> [SubSeq(st, i, Len(st)) EXCEPT
                               ![1] = <<pop[i][1] + pop[i][2], dif>>]]
         ELSE popLoop(st, s, i + 1, t)

\* popStream without the cut of the run that crosses sz
RECURSIVE popWholeRuns(_, _, _, _)
popWholeRuns(st, s, i, total) ==
    IF i > Len(st) THEN [pop |-> st, n |-> total, rest |-> <<>>]
    ELSE LET t == total + st[i][2] IN
         IF s < t
         THEN [pop |-> SubSeq(st, 1, i), n |-> t, rest |-> SubSeq(st, i + 1, Len(st))]
         ELSE popWholeRuns(st, s, i + 1, t)
popStreamUncut(st, sz) == popWholeRuns(st, sz, 1, 0)

\* File.popStream(sz) on the runs st: the runs popped, their count of bytes,
\* and the runs left in f.stream
popStream(st, sz) == popLoop(st, sz, 1, 0)

\* ------------------------------------------------------------------- Read
\* the loop of File.Read over the popped runs: what it returns when it
\* returns early, the runs of the byte source written to b (from b[0] on, one
\* after the other), and the calls of ReadAt made
RECURSIVE readLoop(_, _, _, _, _, _, _, _)
readLoop(str, k, bidx, i, lenb, writes, calls, rds) ==
    IF k > Len(str)
    THEN [early |-> FALSE, n |-> i, err |-> ErrNil, writes |-> writes,
          calls |-> calls, reads |-> rds]
    ELSE LET v == str[k]
             jdx == bidx + v[2]
         IN IF bidx < 0 \/ jdx < bidx \/ jdx > lenb
            THEN [early |-> TRUE, n |-> 0, err |-> ErrRead, writes |-> writes,
                  calls |-> calls, reads |-> rds]
            ELSE LET ra == SourceReadAt(v[1], v[2])
                     w == IF ra.n > 0 THEN Append(writes, <<v[1], ra.n>>) ELSE writes
                     rds2 == rds \cup {<<v[1], v[2]>>}
                 IN IF ra.err # ErrNil
                    THEN [early |-> TRUE, n |-> i + ra.n, err |-> ErrRead,
                          writes |-> w, calls |-> calls + 1, reads |-> rds2]
                    ELSE readLoop(str, k + 1, bidx + v[2], i + ra.n, lenb, w,
                                  calls + 1, rds2)

\* the status File.Read returns with the count sz when every ReadAt succeeded
readStatusAlwaysNil(sz, lenb) == ErrNil
readStatus(sz, lenb) == IF sz < lenb THEN EOF ELSE ErrNil

\* File.Read(b) on entry f with len(b) = lenb
FileRead(f, lenb) ==
    IF File[f].objectType # stream \/ File[f].Size < 1
    THEN [n |-> 0, err |-> EOF, fstream |-> fstream[f], writes |-> <<>>,
          popped |-> 0, srcReads |-> 0, walked |-> FALSE, io |-> NoIO,
          set |-> <<>>, srcErr |-> FALSE]
    ELSE LET set == IF fstream[f].isNil
                    THEN ReaderStream(File[f].startingSectorLoc, File[f].Size,
                                      File[f].Size < miniStreamCutoffSize)
                    ELSE fstream[f] @@ [err |-> ErrNil, io |-> NoIO]
         IN IF set.err # ErrNil
            THEN [n |-> 0, err |-> set.err, fstream |-> fstream[f],
                  writes |-> <<>>, popped |-> 0, srcReads |-> 0, walked |-> TRUE,
                  io |-> set.io, set |-> <<>>, srcErr |-> FALSE]
            ELSE LET p == popStream(set.runs, lenb)
                     rd == readLoop(p.pop, 1, 0, 0, lenb, <<>>, 0, set.io.reads)
                 IN [n |-> IF rd.early THEN rd.n ELSE p.n,
                     err |-> IF rd.early THEN rd.err ELSE readStatus(p.n, lenb),
                     fstream |-> Runs(p.rest),
                     writes |-> rd.writes,
                     popped |-> p.n,
                     srcReads |-> rd.calls,
                     walked |-> fstream[f].isNil,
                     io |-> [reads |-> rd.reads, sectors |-> set.io.sectors],
                     set |-> IF fstream[f].isNil THEN <<set.runs>> ELSE <<>>,
                     srcErr |-> rd.early /\ rd.calls > 0
                                /\ SourceReadAt(p.pop[rd.calls][1],
                                                p.pop[rd.calls][2]).err # ErrNil]

\* the first n bytes of a list of runs
RECURSIVE TakeBytes(_, _)
TakeBytes(runs, n) ==
    IF n <= 0 \/ runs = <<>> THEN <<>>
    ELSE IF Head(runs)[2] >= n THEN << <<Head(runs)[1], n>> >>
         ELSE <<Head(runs)>> \o TakeBytes(Tail(runs), n - Head(runs)[2])

\* a list of runs without empty runs and with adjacent runs joined: two
\* lists name the same sequence of bytes exactly when this form is the same
RECURSIVE Norm(_)
Norm(runs) ==
    IF runs = <<>> THEN <<>>
    ELSE IF Head(runs)[2] <= 0 THEN Norm(Tail(runs))
    ELSE LET rest == Norm(Tail(runs)) IN
         IF rest # <<>> /\ Head(runs)[1] + Head(runs)[2] = rest[1][1]
         THEN << <<Head(runs)[1], Head(runs)[2] + rest[1][2]>> >> \o Tail(rest)
         ELSE <<Head(runs)>> \o rest

\* lengths of the buffers passed to Read
BufLens == {64, 96, 5000}

\* Reader.Read(b): io.EOF past the end, else the current entry's File.Read
Read(lenb) ==
    /\ pc = "open"
    /\ IF entry >= NumFiles(File)
       THEN /\ ret' = [NoRet EXCEPT !.op = "Read", !.err = EOF, !.len = lenb]
            /\ io' = NoIO
            /\ UNCHANGED <<fstream, delivered>>
       ELSE LET f == indexes[entry]
                r == FileRead(f, lenb)
            IN /\ ret' = [op |-> "Read", file |-> f, n |-> r.n, err |-> r.err,
                          len |-> lenb, writes |-> r.writes, popped |-> r.popped,
                          srcReads |-> r.srcReads, walked |-> r.walked,
                          set |-> r.set, srcErr |-> r.srcErr]
               /\ fstream' = [fstream EXCEPT ![f] = r.fstream]
               /\ io' = r.io
               /\ delivered' = [delivered EXCEPT
                                   ![f] = Norm(@ \o TakeBytes(r.writes, r.n))]
    /\ UNCHANGED <<loopSn, pc, File, Path, indexes, idx, err, stack, heap, entry,
                   nextCalls, iterDone, sourceVars>>

\* ------------------------------------------------- the run-list functions
\* compressChain and popStream on their own, as TestCompress and
\* TestPopStream call them: fstream[0] is the run list of the receiver and
\* layout[0] keeps the list the function was given
MaxRuns == 3
RunOffsets == {50, 150, 550, 1000}
RunLengths == {-100, 0, 100, 500}
TestCompressA ==
    <<<<4608, 1024>>, <<5632, 1024>>, <<6656, 1024>>, <<7680, 1024>>,
      <<8704, 1024>>, <<9728, 1024>>, <<10752, 512>>>>
TestCompressB ==
    <<<<4608, 1024>>, <<6656, 1024>>, <<7680, 1024>>, <<8704, 1024>>,
      <<10752, 512>>>>
TestPopStreamA == <<<<50, 500>>>>
TestPopStreamB == <<<<50, 500>>, <<1000, 600>>>>
RunLists ==
    UNION {[1..n -> RunOffsets \X RunLengths] : n \in 0..MaxRuns}
        \cup {TestCompressA, TestCompressB, TestPopStreamA, TestPopStreamB}
PopCounts == {0, 200, 600, 5000}

RunsInit ==
    \E locs \in RunLists :
        /\ pc = "runs"
        /\ fstream = [i \in {0} |-> Runs(locs)]
        /\ layout = [i \in {0} |-> locs]
        /\ ret = NoRet
        /\ image = [header |-> headerFields(3, 9, endOfChain, endOfChain, 0),
                    dirs |-> <<>>]
        /\ disk = <<>>
        /\ fileLen = 0
        /\ sectorSize = 0
        /\ hdr = NilHeader
        /\ File = <<>>
        /\ Path = <<>>
        /\ delivered = <<>>
        /\ indexes = <<>>
        /\ idx = 0
        /\ err = ErrNil
        /\ stack = <<>>
        /\ heap = <<>>
        /\ entry = 0
        /\ nextCalls = 0
        /\ iterDone = FALSE
        /\ io = NoIO
        /\ loopSn = 0

CompressChain ==
    /\ pc = "runs"
    /\ pc' = "compressed"
    /\ ret' = [NoRet EXCEPT !.op = "compressChain",
                            !.set = <<compressChain(fstream[0].runs)>>]
    /\ UNCHANGED <<loopSn, File, Path, fstream, indexes, idx, err, stack, heap, entry,
                   nextCalls, iterDone, delivered, io, sourceVars>>

PopStream(sz) ==
    /\ pc = "runs"
    /\ pc' = "popped"
    /\ LET p == popStream(fstream[0].runs, sz)
       IN /\ ret' = [NoRet EXCEPT !.op = "popStream", !.len = sz, !.n = p.n,
                                  !.popped = p.n, !.set = <<p.pop>>]
          /\ fstream' = [fstream EXCEPT ![0] = Runs(p.rest)]
    /\ UNCHANGED <<loopSn, File, Path, indexes, idx, err, stack, heap, entry,
                   nextCalls, iterDone, delivered, io, sourceVars>>

RunsStep ==
    \/ CompressChain
    \/ \E sz \in PopCounts : PopStream(sz)

RunsSpec == RunsInit /\ [][RunsStep]_vars

\* one more turn of `for sn != endOfChain` in setDirEntries or setMiniStream
\* on a chain that is a cycle: every sector of it was read before, findNext
\* succeeds again and sn is never endOfChain
WalkOn ==
    /\ pc = "hang"
    /\ loopSn' = findNext(loopSn, FALSE).val
    /\ UNCHANGED <<pc, File, Path, fstream, indexes, idx, err, stack, heap,
                   entry, sectorSize, hdr, image, disk, fileLen, ret, nextCalls,
                   iterDone, delivered, io, layout>>

Step ==
    \/ SetHeader
    \/ SetDifats
    \/ SetDirEntries
    \/ SetMiniStream
    \/ WalkOn
    \/ Traverse
    \/ RecurseEnter
    \/ RecurseRecord
    \/ RecurseRight
    \/ RecurseReturn
    \/ NewReturn
    \/ Next
    \/ \E lenb \in BufLens : Read(lenb)

Spec == Init /\ [][Step]_vars

\* ------------------------------------------------------------------ names
\* fixName on its own: the raw slot in image.dirs[1] (rawName, the 32 UTF-16
\* code units; nameLength, the 16-bit length field), the entry it leaves in
\* File[0].
lenRawName == 32

\* unicode.IsPrint for the code units of RawNames: Latin-1 graphic
\* characters and the ASCII space; control characters and surrogates are not
IsPrint(c) == (c >= 32 /\ c <= 126) \/ (c >= 161 /\ c <= 255 /\ c # 173)

\* utf16.Decode: a surrogate pair is one code point, a surrogate alone
\* U+FFFD, every other code unit itself
RECURSIVE utf16Decode(_)
utf16Decode(s) ==
    IF s = <<>> THEN <<>>
    ELSE IF /\ s[1] >= 55296 /\ s[1] < 56320 /\ Len(s) > 1
            /\ s[2] >= 56320 /\ s[2] < 57344
         THEN <<65536 + (s[1] - 55296) * 1024 + (s[2] - 56320)>>
              \o utf16Decode(SubSeq(s, 3, Len(s)))
    ELSE IF s[1] >= 55296 /\ s[1] < 57344
         THEN <<65533>> \o utf16Decode(Tail(s))
    ELSE <<s[1]>> \o utf16Decode(Tail(s))

\* fixName: Initial and Name of the entry (Name as its code points), units:
\* the code units rawName[slen:nlen] handed to utf16.Decode; panic: the
\* slice expression is out of range of the array
fixName(rawName, nameLength) ==
    LET nlen == IF nameLength > 2 THEN nameLength \div 2 - 1
                ELSE IF nameLength > 0 THEN 1 ELSE 0
    IN IF nlen <= 0
       THEN [panic |-> FALSE, Initial |-> 0, Name |-> <<>>, lo |-> 0, hi |-> 0]
       ELSE LET slen == IF ~IsPrint(rawName[1]) THEN 1 ELSE 0
            IN IF slen > nlen \/ nlen > Len(rawName)
               THEN [panic |-> TRUE, Initial |-> rawName[1], Name |-> <<>>,
                     lo |-> slen, hi |-> nlen]
               ELSE [panic |-> FALSE, Initial |-> rawName[1],
                     Name |-> utf16Decode(SubSeq(rawName, slen + 1, nlen)),
                     lo |-> slen, hi |-> nlen]

PadName(s) == s \o [i \in 1..(lenRawName - Len(s)) |-> 0]

\* "Root Entry"; "\005Sum"; 32 letters without terminator; a surrogate pair
\* and a letter; a low surrogate alone and a letter; an empty name
RawNames ==
    {PadName(<<82, 111, 111, 116, 32, 69, 110, 116, 114, 121>>),
     PadName(<<5, 83, 117, 109>>),
     [i \in 1..lenRawName |-> 65],
     PadName(<<55357, 56832, 65>>),
     PadName(<<56832, 65>>),
     PadName(<<>>)}
NameLengths == {0, 1, 2, 3, 4, 5, 8, 22, 63, 64, 65, 66, 67, 68, 130, 65535}

NameInit ==
    \E rn \in RawNames, nl \in NameLengths :
        /\ pc = "name"
        /\ image = [header |-> headerFields(3, 9, endOfChain, endOfChain, 0),
                    dirs |-> <<[rawName |-> rn, nameLength |-> nl]>>]
        /\ File = <<>>
        /\ fstream = <<>>
        /\ layout = <<>>
        /\ ret = NoRet
        /\ disk = <<>>
        /\ fileLen = 0
        /\ sectorSize = 0
        /\ hdr = NilHeader
        /\ Path = <<>>
        /\ delivered = <<>>
        /\ indexes = <<>>
        /\ idx = 0
        /\ err = ErrNil
        /\ stack = <<>>
        /\ heap = <<>>
        /\ entry = 0
        /\ nextCalls = 0
        /\ iterDone = FALSE
        /\ io = NoIO
        /\ loopSn = 0

FixName ==
    /\ pc = "name"
    /\ LET f == fixName(image.dirs[1].rawName, image.dirs[1].nameLength)
       IN /\ pc' = IF f.panic THEN "panic" ELSE "named"
          /\ File' = [i \in {0} |-> [Name |-> f.Name, Initial |-> f.Initial]]
          /\ ret' = [NoRet EXCEPT !.op = "fixName", !.n = f.lo, !.len = f.hi]
    /\ UNCHANGED <<loopSn, Path, fstream, indexes, idx, err, stack, heap, entry,
                   nextCalls, iterDone, delivered, io, sourceVars>>

NameStep == FixName

NameSpec == NameInit /\ [][NameStep]_vars

\* New runs to its return once called: the steps of New are taken as long
\* as one of them can be.  Next and Read are the caller's to make or not.
NewStep ==
    \/ SetHeader
    \/ SetDifats
    \/ SetDirEntries
    \/ SetMiniStream
    \/ WalkOn
    \/ Traverse
    \/ RecurseEnter
    \/ RecurseRecord
    \/ RecurseRight
    \/ RecurseReturn
    \/ NewReturn

\* the files of the runs checked for termination: chains with and without
\* a cycle
LiveScenarios ==
    CycleScenarios
    \cup {DirScenario(TestDir), DirScenario(PlainDir), MiniScenario(100, <<0, 1>>),
          RegularScenario(4608, <<2, 3>>)}
LiveInit == InitOn(LiveScenarios)

LiveSpec == LiveInit /\ [][Step]_vars /\ WF_vars(NewStep)

\* ------------------------------------------------------------ two readers
\* New called on a second file while the reader of the first is open: the
\* setHeader of the second reader stores the sector size of its header in
\* the package's variable.  Nothing else of the first reader changes.
OtherShifts == {9, 12}
\* A 512-byte-sector file of 32 sectors whose stream occupies sectors 2..9;
\* its data word at byte 4104 (sector 7) is what a reader computing with
\* 4096-byte sectors takes for the FAT entry of sector 2.
WideScenario ==
    [RegularScenario(4096, Range(2, 9)) EXCEPT
        !.disk = (4096 + 2 * 4 :> endOfChain) @@ @,
        !.fileLen = 32 * 512]

SharedScenarios ==
    {RegularScenario(4608, <<2, 3>>), MiniScenario(100, <<0, 1>>), V4Scenario,
     DirScenario(TestDir), WideScenario} \cup CycleScenarios

SharedInit == InitOn(SharedScenarios)

NewOther(shift) ==
    /\ pc = "open"
    /\ sectorSize' = setSectorSize(shift)
    /\ UNCHANGED <<loopSn, pc, File, Path, fstream, indexes, idx, err, stack, heap,
                   entry, hdr, image, disk, fileLen, ret, nextCalls, iterDone,
                   delivered, io, layout>>

SharedStep ==
    \/ Step
    \/ \E shift \in OtherShifts : NewOther(shift)

SharedSpec == SharedInit /\ [][SharedStep]_vars

\* -------------------------------------------------------------- properties
\* the entries traverse has recorded so far, in the order of the records
Visited == [k \in 1..idx |-> indexes[k - 1]]

NoRepeat(q) == \A a, b \in DOMAIN q : a # b => q[a] # q[b]

RECURSIVE RunsLen(_)
RunsLen(runs) == IF runs = <<>> THEN 0 ELSE Head(runs)[2] + RunsLen(Tail(runs))

\* --- C1
\* bytes of a sector of the chain of stream f
SectorBytes(f) ==
    IF File[f].Size < miniStreamCutoffSize THEN miniStreamSectorSize ELSE sectorSize

\* where in the byte source the k-th sector of the chain of f lies
SectorAt(f, k) ==
    LET sn == layout[f][k] IN
    IF File[f].Size < miniStreamCutoffSize
    THEN (layout[0][sn \div 8 + 1] + 1) * sectorSize + (sn % 8) * miniStreamSectorSize
    ELSE (sn + 1) * sectorSize

\* the chain of f has ceil(size / sector bytes) sectors, all of them in the
\* file, and ends in endOfChain
WellFormed(f) ==
    /\ File[f].objectType = stream
    /\ File[f].Size >= 1
    /\ Len(layout[f]) = (File[f].Size + SectorBytes(f) - 1) \div SectorBytes(f)
    /\ \A k \in DOMAIN layout[f] : SectorAt(f, k) + SectorBytes(f) <= fileLen
    /\ LET last == layout[f][Len(layout[f])]
           fs == IF File[f].Size < miniStreamCutoffSize
                 THEN hdr.MiniFatSectorLoc ELSE 0
       IN WordAt(FatWordAt(sectorSize, fs, last)) = endOfChain

\* the bytes of stream f: its sectors in chain order, cut to the declared size
StreamBytes(f) ==
    Norm(TakeBytes([k \in 1..Len(layout[f]) |-> <<SectorAt(f, k), SectorBytes(f)>>],
                   File[f].Size))

\* C1: for a stream whose chain is well formed, what the Reads so far have
\* delivered is the beginning of the stream's bytes in chain order (every byte
\* once, none twice, never more than the declared size), it is all of them
\* once the run list is empty, and a Read that delivers nothing returns
\* end-of-stream.
C1_ReadsDeliverTheStream ==
    \A f \in DOMAIN File :
        WellFormed(f) =>
            /\ RunsLen(delivered[f]) <= File[f].Size
            /\ delivered[f] = Norm(TakeBytes(StreamBytes(f), RunsLen(delivered[f])))
            /\ (~fstream[f].isNil /\ fstream[f].runs = <<>>)
                   => delivered[f] = StreamBytes(f)
            /\ (ret.op = "Read" /\ ret.file = f /\ ret.n = 0) => ret.err = EOF

\* the same for the streams none of whose sectors lies at or past the byte
\* offset 2^WordBits
NoWrap(f) == \A k \in DOMAIN layout[f] : SectorAt(f, k) + SectorBytes(f) <= U32

C1_HoldsBelowTheWordLimit ==
    \A f \in DOMAIN File :
        (WellFormed(f) /\ NoWrap(f)) =>
            /\ RunsLen(delivered[f]) <= File[f].Size
            /\ delivered[f] = Norm(TakeBytes(StreamBytes(f), RunsLen(delivered[f])))
            /\ (~fstream[f].isNil /\ fstream[f].runs = <<>>)
                   => delivered[f] = StreamBytes(f)
            /\ (ret.op = "Read" /\ ret.file = f /\ ret.n = 0) => ret.err = EOF

\* --- C2
\* visit(i) = visit(left(i)); record i; visit(child(i)); visit(right(i)),
\* a link equal to noStream skipped
\* (-1 stands for a visit that is not defined: of an index outside the
\* array, or nested deeper than the array has entries, which only links in a
\* cycle lead to)
RECURSIVE VisitFrom(_, _)
VisitFrom(i, depth) ==
    IF i \notin DOMAIN File \/ depth > NumFiles(File) THEN <<-1>>
    ELSE LET sub(j) == IF j = noStream THEN <<>> ELSE VisitFrom(j, depth + 1)
         IN sub(File[i].leftSibID) \o <<i>> \o sub(File[i].childID)
            \o sub(File[i].rightSibID)

Visit(i) == VisitFrom(i, 1)

TestTraverseExpect == <<0, 1, 2, 4, 5, 8, 9, 11, 6, 3, 7, 10>>

\* C2: when New has returned the reader, the entries recorded are Visit(0) in
\* that order, and for the directory of TestTraverse they are
\* [0, 1, 2, 4, 5, 8, 9, 11, 6, 3, 7, 10].
C2_TraversalOrder ==
    pc = "open" =>
        /\ Visited = Visit(0)
        /\ File = TestDir => Visited = TestTraverseExpect

C2_Witness == pc = "open" /\ File = TestDir /\ idx = NumFiles(File)

\* --- C3
\* C3: after a successful open the visitation order is a permutation of the
\* indices of the directory array that starts with index 0: no entry is
\* missing, reachable from the root or not, and none is repeated.
C3_OrderIsPermutation ==
    pc = "open" =>
        /\ indexes[0] = 0
        /\ \A i \in DOMAIN File : \E k \in DOMAIN indexes : indexes[k] = i
        /\ \A a, b \in DOMAIN indexes : a # b => indexes[a] # indexes[b]

\* --- C4
\* C4: the k-th call to Next returns the entry at position k of the order
\* while k is less than the number of entries visited, Next never returns the
\* root, and once Next has returned end-of-iteration every Next and every Read
\* returns it.
C4_NextFollowsTheOrder ==
    /\ (ret.op = "Next" /\ nextCalls < idx)
           => (ret.err = ErrNil /\ ret.file = indexes[nextCalls])
    /\ ret.op = "Next" => ret.file # 0
    /\ (iterDone /\ ret.op \in {"Next", "Read"})
           => (ret.err = EOF /\ ret.n = 0 /\ ret.file = -1)

\* --- C5
ReadFailed == ret.err \in {ErrRead, ErrSeek}

\* C5 as stated: a Read that delivers the last bytes of a stream, fewer than
\* len(buf), returns the short count with a success status.
C5_ShortReadReturnsSuccess ==
    (ret.op = "Read" /\ ~ReadFailed /\ 0 < ret.n /\ ret.n < ret.len)
        => ret.err = ErrNil

\* C5, amended: a Read that returns without a read error and with fewer bytes
\* than len(buf) returns end-of-stream in that same call and leaves the run
\* list empty, so that the next Read returns 0 with end-of-stream; a Read
\* returns success only with len(buf) bytes.
C5_ShortReadReturnsEOF ==
    /\ (ret.op = "Read" /\ ~ReadFailed /\ ret.n < ret.len)
           => /\ ret.err = EOF
              /\ (ret.file >= 0 /\ ~fstream[ret.file].isNil)
                     => fstream[ret.file].runs = <<>>
    /\ (ret.op = "Read" /\ ret.err = ErrNil) => ret.n = ret.len

C5_Witness ==
    /\ ret.op = "Read" /\ 0 < ret.n /\ ret.n < ret.len /\ ret.err = EOF
    /\ fstream[ret.file].runs = <<>>

\* --- C6
\* C6: Read while the current entry is a storage or the root returns an error
\* that is neither end-of-stream nor end-of-iteration (both io.EOF) nor
\* success, writes nothing to buf and makes no call of the byte source.
C6_NoStreamError ==
    (ret.op = "Read" /\ ret.file >= 0
     /\ File[ret.file].objectType \in {storage, rootStorage})
        => /\ ret.err \notin {ErrNil, EOF}
           /\ ret.n = 0 /\ ret.writes = <<>>
           /\ ret.srcReads = 0 /\ ~ret.walked

C8_NoSecondVisit ==
    /\ pc \notin {"overflow", "panic"}
    /\ NoRepeat(Visited)

\* --- C9
\* C9: once traverse has reached a link that is neither noStream nor an index
\* of the directory array, New returns the bad-directory error and no reader.
C9_BadLinkFailsOpen ==
    err = ErrBadDir => pc \in {"traverse", "failed"}

\* --- C10
\* the entries below entry i with the names of the storages on the chain of
\* child links that leads to them, the root's name left out
RECURSIVE ChildChains(_, _)
ChildChains(i, names) ==
    LET sub(j, p) == IF j = noStream THEN {} ELSE ChildChains(j, p)
    IN sub(File[i].leftSibID, names) \cup {<<i, names>>}
       \cup sub(File[i].childID, IF i > 0 THEN Append(names, File[i].Name) ELSE names)
       \cup sub(File[i].rightSibID, names)

\* C10: after open completes on a directory each of whose entries was visited
\* once, the path of every visited entry is the names of the storages on the
\* chain of child links from the root to it, outermost first, without the
\* root's name.
C10_PathIsChildChain ==
    (pc = "open" /\ NoRepeat(Visited)) =>
        \A c \in ChildChains(0, <<>>) : SliceVal(heap, Path[c[1]]) = c[2]

\* --- C11
ShiftMatches(h) ==
    \/ h.MajorVersion = 3 /\ h.SectorSize = 9
    \/ h.MajorVersion = 4 /\ h.SectorSize = 12

\* C11: once setHeader has run on a header whose sector shift does not match
\* its major version (9 with 3, 12 with 4), New has failed with the format
\* error; and the sector size in use is never other than 512 or 4096 (0: none
\* set yet).
C11_SectorShiftIsChecked ==
    /\ (pc # "start" /\ ~ShiftMatches(image.header))
           => (pc = "failed" /\ err = ErrFormat)
    /\ sectorSize \in {0, 512, 4096}

\* --- C12
\* C12 as stated: once setHeader has run on a source whose first 8 bytes are
\* not the signature, New has failed with the format error and has issued no
\* read but the one of the header.
C12_BadSignatureIsFormatError ==
    (pc # "start" /\ image.header.Signature # signature)
        => /\ pc = "failed" /\ err = ErrFormat
           /\ io.reads = {<<0, lenHeader>>}

\* C12, amended: on such a source New fails after the header read alone, with
\* the format error when the source holds the whole header and with the read
\* error when it is shorter than the header.
C12_BadSignatureFailsOpen ==
    (pc # "start" /\ image.header.Signature # signature)
        => /\ pc = "failed"
           /\ err = IF fileLen >= lenHeader THEN ErrFormat ELSE ErrRead
           /\ io.reads = {<<0, lenHeader>>}

C12_Witness ==
    /\ pc = "failed" /\ err = ErrFormat
    /\ image.header.Signature # signature /\ io.reads = {<<0, lenHeader>>}

\* --- C13
\* the slots of the directory sectors
DiskSlots == UNION {{image.dirs[o][j] : j \in DOMAIN image.dirs[o]} : o \in DOMAIN image.dirs}

\* C13: in a file of major version 3 every loaded entry has a size below 2^32,
\* the low 32 bits of the size field of its slot.
C13_V3SizeIsLowWord ==
    hdr.MajorVersion = 3 =>
        \A i \in DOMAIN File :
            /\ File[i].Size < U32
            /\ \E sl \in DiskSlots :
                  /\ sl.Name = File[i].Name /\ sl.objectType = File[i].objectType
                  /\ File[i].Size = sl.Size % U32

C13_Witness ==
    /\ pc = "open" /\ hdr.MajorVersion = 3
    /\ \E i \in DOMAIN File : \E sl \in DiskSlots :
          sl.Name = File[i].Name /\ sl.Size >= U32 /\ File[i].Size = sl.Size % U32

\* --- C14
\* the last Read materialized the run list of its entry
Materialized == ret.op = "Read" /\ ret.set # <<>>

\* C14: whenever Reader.stream returns a run list for an entry of size > 0,
\* the lengths of its runs sum to the entry's size.
C14_RunsSumToSize ==
    (Materialized /\ File[ret.file].Size > 0)
        => RunsLen(ret.set[1]) = File[ret.file].Size

\* the same for sizes that fit the signed 64-bit integer of a run length
C14_RunsSumToSizeBelowSignBit ==
    (Materialized /\ File[ret.file].Size > 0 /\ File[ret.file].Size < U64 \div 2)
        => RunsLen(ret.set[1]) = File[ret.file].Size

\* a chain shorter and a chain longer than the size asks for, materialized
C14_ShortChain ==
    /\ Materialized /\ File[ret.file].Size \in miniStreamCutoffSize..(U32 - 1)
    /\ Len(layout[ret.file]) * sectorSize < File[ret.file].Size
    /\ RunsLen(ret.set[1]) = File[ret.file].Size
C14_LongChain ==
    /\ Materialized /\ File[ret.file].Size \in miniStreamCutoffSize..(U32 - 1)
    /\ (Len(layout[ret.file]) - 1) * sectorSize >= File[ret.file].Size
    /\ RunsLen(ret.set[1]) = File[ret.file].Size

\* --- C15
\* every run of a list that continues the run before it joined to that run
RECURSIVE MergeRuns(_)
MergeRuns(runs) ==
    IF Len(runs) <= 1 THEN runs
    ELSE LET rest == MergeRuns(Tail(runs)) IN
         IF Head(runs)[1] + Head(runs)[2] = rest[1][1]
         THEN << <<Head(runs)[1], Head(runs)[2] + rest[1][2]>> >> \o Tail(rest)
         ELSE <<Head(runs)>> \o rest

\* a list of runs of bytes: no length is negative
ByteRuns(runs) == \A k \in 1..Len(runs) : runs[k][2] >= 0

NoAdjacentContiguous(runs) ==
    \A k \in 1..Len(runs) - 1 : runs[k][1] + runs[k][2] # runs[k + 1][1]

\* C15: compressChain returns its argument with every maximal sequence of
\* adjacent contiguous runs merged into one run: no two adjacent runs of the
\* result are contiguous, the total length is the same and, the runs being
\* runs of bytes, so are the bytes and their order; the seven runs of
\* TestCompress become [(4608, 6656)].
C15_CompressMergesContiguousRuns ==
    ret.op = "compressChain" =>
        LET in == layout[0]
            out == ret.set[1]
        IN /\ out = MergeRuns(in)
           /\ NoAdjacentContiguous(out)
           /\ RunsLen(out) = RunsLen(in)
           /\ ByteRuns(in) => Norm(out) = Norm(in)
           /\ in = TestCompressA => out = << <<4608, 6656>> >>
           /\ in = TestCompressB
                  => out = << <<4608, 1024>>, <<6656, 3072>>, <<10752, 512>> >>

C15_Witness ==
    /\ ret.op = "compressChain" /\ layout[0] = TestCompressA
    /\ ret.set[1] = << <<4608, 6656>> >>

\* --- C16
Min(a, b) == IF a < b THEN a ELSE b

\* C16, for the popStream of the Read that materialized the run list: with T
\* the total length of the list and n the length of the buffer, popStream
\* returns min(n, T) and leaves runs of total length T - min(n, T).
C16_PopReturnsTheMinimum ==
    Materialized =>
        LET T == RunsLen(ret.set[1])
            m == Min(ret.len, T)
        IN /\ ret.popped = m
           /\ RunsLen(fstream[ret.file].runs) = T - m

\* C16 on the run lists of RunsSpec whose run lengths are not negative:
\* popStream(n) returns min(n, T) and popped runs of that total length, leaves
\* runs of total length T - min(n, T), and the popped runs followed by the
\* runs left are the bytes of the original list in their order, the run the
\* request splits divided at offset + consumed length; the two calls of
\* TestPopStream return what the test expects.
C16_PopOfRunsNotNegative ==
    (ret.op = "popStream" /\ ByteRuns(layout[0])) =>
        LET in == layout[0]
            pop == ret.set[1]
            rest == fstream[0].runs
            T == RunsLen(in)
            m == Min(ret.len, T)
        IN /\ ret.n = m
           /\ RunsLen(pop) = m
           /\ RunsLen(rest) = T - m
           /\ Norm(pop \o rest) = Norm(in)
           /\ (m < T) => /\ rest[1][1] = pop[Len(pop)][1] + pop[Len(pop)][2]
                         /\ Len(pop) + Len(rest) = Len(in) + 1
           /\ (in = TestPopStreamB /\ ret.len = 600)
                  => /\ pop = << <<50, 500>>, <<1000, 100>> >>
                     /\ rest = << <<1100, 500>> >>
           /\ (in = TestPopStreamA /\ ret.len = 200)
                  => /\ pop = << <<50, 200>> >> /\ rest = << <<250, 300>> >>

C16_PopSplitsARun ==
    /\ ret.op = "popStream" /\ layout[0] = TestPopStreamB /\ ret.len = 600
    /\ ret.set[1] = << <<50, 500>>, <<1000, 100>> >>
    /\ fstream[0].runs = << <<1100, 500>> >>

\* --- C17
\* C17: no walk of a chain (setDirEntries, setMiniStream, Reader.stream) goes
\* to a sector number above maxRegSect: a reserved value found as a link ends
\* the chain, it is not read at and no offset is computed from it.
C17_ReservedLinkEndsTheChain == \A sn \in io.sectors : sn <= maxRegSect

\* --- C18
\* ceil(size / sector_bytes) + 1 for entry f, the sectors being mini-sectors
\* for a size below the cutoff
WalkBound(f) ==
    LET s == IF File[f].Size < miniStreamCutoffSize THEN miniStreamSectorSize
             ELSE sectorSize
    IN (File[f].Size + s - 1) \div s + 1

\* C18: a Read that calls Reader.stream on an entry whose chain holds more
\* sectors than ceil(size / sector_bytes) + 1 returns the read error and no
\* run list.
C18_LongChainIsReadError ==
    (ret.op = "Read" /\ ret.walked /\ File[ret.file].Size < U32
        /\ Len(layout[ret.file]) > WalkBound(ret.file))
        => (ret.err = ErrRead /\ ret.set = <<>>)

\* Reader.stream computes the offset of at most one sector more than that
C18_WalkIsBounded ==
    (ret.op = "Read" /\ ret.walked /\ File[ret.file].Size < U32)
        => Cardinality(io.sectors) <= WalkBound(ret.file) + 1

\* --- C19
\* the last call walked a chain of the mini FAT
MiniWalk ==
    ret.op = "Read" /\ ret.walked /\ File[ret.file].Size < miniStreamCutoffSize

\* the offset of sector sn in exact arithmetic; -1 for a mini-sector that lies
\* outside the ministream
ExactOffset(sn, mini) ==
    IF ~mini THEN (sn + 1) * sectorSize
    ELSE LET per == sectorSize \div miniStreamSectorSize IN
         IF sn \div per >= Len(hdr.miniStreamLocs) THEN -1
         ELSE (hdr.miniStreamLocs[sn \div per + 1] + 1) * sectorSize
                  + (sn % per) * miniStreamSectorSize

OffsetIsExact(sn, mini) ==
    LET o == getOffset(sn, mini) IN
    IF ExactOffset(sn, mini) = -1 THEN o.err # ErrNil
    ELSE o.err = ErrNil /\ o.off = ExactOffset(sn, mini)

\* C19: with 512 or 4096 byte sectors, the offset computed for every sector
\* up to maxRegSect that a walk goes to is the exact one, and a mini-sector
\* outside the ministream gives an error.
C19_OffsetsAreExact ==
    sectorSize \in {512, 4096} =>
        \A sn \in io.sectors : sn <= maxRegSect => OffsetIsExact(sn, MiniWalk)

\* the same for the sectors whose exact offset fits the machine word
C19_ExactBelowTheWordLimit ==
    sectorSize \in {512, 4096} =>
        \A sn \in io.sectors :
            (sn <= maxRegSect /\ ExactOffset(sn, MiniWalk) < U32)
                => OffsetIsExact(sn, MiniWalk)

\* a mini-sector outside the ministream, refused
C19_MiniSectorOutside ==
    /\ MiniWalk /\ ret.err = ErrRead
    /\ \E sn \in io.sectors : ExactOffset(sn, TRUE) = -1

\* --- C20
\* C20: every read issued to the byte source, by New and by Read, starts at
\* an offset inside the file.
C20_ReadsStartInsideTheFile ==
    \A rd \in io.reads : 0 <= rd[1] /\ rd[1] < fileLen

\* the same for the files that hold every sector their header, FAT and
\* directory name
C20_HoldsForWellFormedFiles ==
    (ret.op = "Read" /\ ret.walked /\ WellFormed(ret.file) /\ NoWrap(ret.file))
        => \A rd \in io.reads : 0 <= rd[1] /\ rd[1] < fileLen

\* --- C21
\* C21: a Read in which a ReadAt of the byte source fails returns the read
\* error and leaves the run list of its entry as it was before the call (the
\* list Reader.stream returned, when this call materialized it).
C21_FailedReadKeepsTheRuns ==
    [][(ret'.op = "Read" /\ ret'.srcErr)
           => /\ ret'.err = ErrRead
              /\ fstream'[ret'.file].runs =
                     IF ret'.set # <<>> THEN ret'.set[1]
                     ELSE fstream[ret'.file].runs]_vars

\* the first half alone: such a Read returns the read error
C21_FailedReadIsReadError == (ret.op = "Read" /\ ret.srcErr) => ret.err = ErrRead

\* a Read after a failed one delivers bytes of the stream that lie after the
\* range that failed
C21_ReadGoesOnAfterFailure ==
    /\ ret.op = "Read" /\ ret.srcErr /\ fstream[ret.file].runs # <<>>

\* --- C22
\* the header and the root say that there is no ministream
NoMiniStream ==
    \/ File[0].startingSectorLoc = endOfChain
    \/ hdr.MiniFatSectorLoc = endOfChain
    \/ hdr.NumMiniFatSectors = 0

\* C22: setMiniStream on a file without a ministream does nothing: New goes
\* on, miniFatLocs and miniStreamLocs stay empty, no read is issued.
C22_NoMiniStreamIsNoOp ==
    [][(pc = "mini" /\ pc' # "mini" /\ NumFiles(File) > 0 /\ NoMiniStream)
           => (pc' = "new" /\ hdr' = hdr /\ io' = io /\ err' = err)]_vars

\* the same when the root's starting sector or the header's mini FAT sector
\* is endOfChain
C22_NoOpOnEndOfChain ==
    [][(pc = "mini" /\ pc' # "mini" /\ NumFiles(File) > 0
        /\ (File[0].startingSectorLoc = endOfChain
            \/ hdr.MiniFatSectorLoc = endOfChain))
           => (pc' = "new" /\ hdr' = hdr /\ io' = io /\ err' = err)]_vars

\* the load has passed setMiniStream on a file with a mini FAT but no
\* ministream
C22_PassedWithoutMiniStream ==
    /\ pc = "open" /\ File[0].startingSectorLoc = endOfChain
    /\ hdr.MiniFatSectorLoc # endOfChain /\ hdr.NumMiniFatSectors > 0
    /\ hdr.miniFatLocs = <<>> /\ hdr.miniStreamLocs = <<>>

\* --- C23
\* the number of DIFAT entries the header announces, in exact arithmetic
DifatCount == hdr.NumDifatSectors * (sectorSize \div 4 - 1) + numHeaderDifats

\* it overflows 32 bits or is more than the FAT sectors can account for
DifatCountBad ==
    \/ DifatCount >= U32
    \/ DifatCount > hdr.NumFatSectors + (sectorSize \div 4 - 1)

\* C23: once setDifats has run on a header whose count of DIFAT entries
\* overflows or exceeds NumFatSectors + (sectorSize/4 - 1), New has failed
\* with the format error, the header read being the only read issued.
C23_DifatCountIsChecked ==
    (pc \notin {"start", "difats"} /\ sectorSize > 0 /\ DifatCountBad)
        => /\ pc = "failed" /\ err = ErrFormat
           /\ io.reads = {<<0, lenHeader>>}

\* --- C24
\* the sectors of the DIFAT chain of the file, followed from the header for
\* NumDifatSectors sectors, each at (s + 1) * sectorSize
RECURSIVE DifatChainOf(_, _)
DifatChainOf(s, n) ==
    IF n = 0 THEN <<>>
    ELSE <<s>> \o DifatChainOf(WordAt((s + 1) * sectorSize + sectorSize - 4), n - 1)

\* entry k (from 1) of the DIFAT the file describes: the 109 entries of the
\* header, then the first sectorSize/4 - 1 entries of each DIFAT sector
FileDifatAt(k) ==
    LET per == sectorSize \div 4 - 1
        chain == DifatChainOf(hdr.DifatSectorLoc, hdr.NumDifatSectors)
    IN IF k <= numHeaderDifats
       THEN IF k <= Len(hdr.InitialDifats) THEN hdr.InitialDifats[k] ELSE freeSect
       ELSE WordAt((chain[(k - numHeaderDifats - 1) \div per + 1] + 1) * sectorSize
                   + ((k - numHeaderDifats - 1) % per) * 4)

\* entry k (from 1) of r.header.difats
LoadedDifatAt(k) == IF k <= Len(hdr.difats) THEN hdr.difats[k] ELSE freeSect

\* setDifats has returned nil
DifatsSet == pc \notin {"start", "difats", "failed", "panic"}

\* C24: after setDifats the reads issued for the DIFAT are those of its
\* NumDifatSectors sectors, each a full sector at (s + 1) * sectorSize, and
\* the DIFAT is the 109 header entries followed by the first sectorSize/4 - 1
\* entries of each DIFAT sector in chain order.
C24_DifatIsHeaderThenChain ==
    (pc = "dir" /\ DifatsSet) =>
        LET chain == DifatChainOf(hdr.DifatSectorLoc, hdr.NumDifatSectors)
        IN /\ io.reads = {<<0, lenHeader>>}
                  \cup {<<(chain[k] + 1) * sectorSize, sectorSize>> : k \in DOMAIN chain}
           /\ hdr.difatsLen
                  = numHeaderDifats + hdr.NumDifatSectors * (sectorSize \div 4 - 1)
           /\ \A k \in 1..hdr.difatsLen : LoadedDifatAt(k) = FileDifatAt(k)

\* what holds of it: the length, and no read and the header's entries alone
\* when the count is 0
C24_DifatLength ==
    (pc = "dir" /\ DifatsSet) =>
        /\ hdr.difatsLen
               = numHeaderDifats + hdr.NumDifatSectors * (sectorSize \div 4 - 1)
        /\ Cardinality(io.reads) <= 1 + hdr.NumDifatSectors
        /\ hdr.NumDifatSectors = 0
               => /\ io.reads = {<<0, lenHeader>>}
                  /\ hdr.difats = hdr.InitialDifats

C24_DifatSectorsLoaded == pc = "dir" /\ DifatsSet /\ hdr.NumDifatSectors > 0

\* --- C25
\* findNext(sn, mini) does what C25 says: a seek error and no read for an
\* index outside the DIFAT or miniFatLocs, else the word at (F + 1) *
\* sectorSize + (sn mod entries) * 4, or the read error if that read fails
NextAsStated(sn, mini) ==
    LET entries == sectorSize \div 4
        index == sn \div entries
        r == findNext(sn, mini)
        rds == findNextReads(sn, mini)
    IN IF index >= (IF mini THEN Len(hdr.miniFatLocs) ELSE hdr.difatsLen)
       THEN r.err = ErrSeek /\ rds = {}
       ELSE LET F == IF mini THEN hdr.miniFatLocs[index + 1] ELSE LoadedDifatAt(index + 1)
                off == (F + 1) * sectorSize + (sn % entries) * 4
            IN /\ rds = {<<off, 4>>}
               /\ IF SourceReadAt(off, 4).err = ErrNil
                  THEN r = [val |-> WordAt(off), err |-> ErrNil]
                  ELSE r.err = ErrRead

\* C25: for every sector a chain walk has gone to, findNext is as stated.
C25_NextReadsTheFatWord ==
    (sectorSize > 0 /\ pc # "panic")
        => \A sn \in io.sectors : NextAsStated(sn, MiniWalk)

\* the same for the sectors whose FAT sector lies below the word limit
C25_NextBelowTheWordLimit ==
    (sectorSize > 0 /\ pc # "panic") =>
        \A sn \in io.sectors :
            LET index == sn \div (sectorSize \div 4)
                F == IF MiniWalk
                     THEN IF index < Len(hdr.miniFatLocs)
                          THEN hdr.miniFatLocs[index + 1] ELSE 0
                     ELSE LoadedDifatAt(index + 1)
            IN (F + 1) * sectorSize < U32 => NextAsStated(sn, MiniWalk)

\* walks that met each case: an index outside, a word read, a read that failed
C25_SeekErrorMet ==
    /\ io.sectors # {} /\ err = ErrSeek /\ pc = "failed"
    /\ \E sn \in io.sectors : sn \div (sectorSize \div 4) >= hdr.difatsLen
C25_ReadErrorMet ==
    /\ ret.op = "Read" /\ ret.walked /\ ret.err = ErrRead
    /\ \E sn \in io.sectors : \E rd \in findNextReads(sn, MiniWalk) :
          SourceReadAt(rd[1], rd[2]).err # ErrNil

\* --- C26
\* the package's sector size is no longer that of this reader's header
OtherOpened == pc = "open" /\ sectorSize # Pow2(hdr.SectorSize)

\* C26: once a second reader has been opened on a file with another sector
\* size, the first reader walks its chains and computes its offsets with that
\* size: the run list a Read then builds for a regular stream starts at
\* (sn + 1) * sectorSize, and the FAT word of sn is read at (F + 1) *
\* sectorSize + (sn mod (sectorSize / 4)) * 4, sectorSize being the size the
\* second reader set.
C26_SectorSizeIsShared ==
    [][(/\ OtherOpened
        /\ ret'.op = "Read" /\ ret'.set # <<>>
        /\ fstream[ret'.file].isNil /\ ~fstream'[ret'.file].isNil
        /\ File[ret'.file].Size >= miniStreamCutoffSize)
           => LET sn == File[ret'.file].startingSectorLoc
                  F == LoadedDifatAt(sn \div (sectorSize \div 4) + 1)
              IN /\ ret'.set[1] # <<>>
                 /\ ret'.set[1][1][1] = ToU32((sn + 1) * sectorSize)
                 /\ <<ToU32((F + 1) * sectorSize)
                          + (sn % (sectorSize \div 4)) * 4, 4>> \in io'.reads]_vars

C26_Witness ==
    /\ OtherOpened /\ Materialized /\ hdr.SectorSize = 9 /\ sectorSize = 4096
    /\ File[ret.file].startingSectorLoc = 2
    /\ ret.set[1][1][1] = 3 * 4096

\* --- C27
\* the sector of the directory chain j links after sn
RECURSIVE DirSectorAt(_, _)
DirSectorAt(sn, j) ==
    IF j = 0 THEN sn ELSE DirSectorAt(findNext(sn, FALSE).val, j - 1)

\* the entry stored in the k-th 128-byte slot of the directory stream
StoredSlot(k) ==
    LET per == sectorSize \div dirEntrySize
        sn == DirSectorAt(hdr.DirectorySectorLoc, k \div per)
    IN fixFile(hdr.MajorVersion, SlotAt(fileOffset(sn) + (k % per) * dirEntrySize))

\* the slots below k of the directory stream that are unallocated
GapsBelow(k) == {j \in 0..k - 1 : StoredSlot(j).objectType = unknown}

\* the traversal is at the entry its ID k denotes: recurse(k) passed the
\* range check and is about to record r.File[k]
Visiting == pc = "traverse" /\ stack # <<>> /\ Top.at = "record"

\* C27: the entry the traversal visits for a sibling or child ID k is the
\* entry stored in the k-th slot of the directory stream, also when
\* unallocated slots lie below k.
C27_IdDenotesItsSlot ==
    Visiting => File[Top.i] = StoredSlot(Top.i)

\* C27 where it holds: with no unallocated slot below k, the entry visited
\* for ID k is the entry of the k-th slot.
C27_HoldsWithoutGapsBelow ==
    (Visiting /\ GapsBelow(Top.i) = {}) => File[Top.i] = StoredSlot(Top.i)

\* an ID followed past an unallocated slot that lies above every ID followed
C27_GapAboveMet ==
    /\ Visiting /\ Top.i = 2 /\ GapsBelow(Top.i) = {}
    /\ StoredSlot(3).objectType = unknown /\ File[2].Name = "e2"

\* an ID followed across an unallocated slot: slot 2 holds e2, r.File[2] e3
C27_GapBelowMet ==
    /\ Visiting /\ Top.i = 2 /\ GapsBelow(Top.i) = {1}
    /\ StoredSlot(2).Name = "e2" /\ File[2].Name = "e3"

\* --- C28
\* New is past the walks of the directory chain and the ministream chain
WalksEnded == pc \in {"new", "traverse", "open", "failed", "panic", "overflow"}

\* C28: in every run of New the walk of the directory chain and the walk of
\* the ministream chain end, with a result or an error, also when the FAT
\* links of the chain form a cycle.
C28_WalksEnd == <>WalksEnded

\* the sectors the walk has been at link back to one of them
RECURSIVE LinksBack(_, _, _)
LinksBack(sn, first, n) ==
    IF n = 0 THEN FALSE
    ELSE LET nx == findNext(sn, FALSE)
         IN nx.err = ErrNil /\ (nx.val = first \/ LinksBack(nx.val, first, n - 1))
Cyclic == \E sn \in io.sectors : LinksBack(sn, sn, Cardinality(io.sectors))

\* C28 where it holds: New stays in a walk for ever only on a chain whose
\* links form a cycle, and in every run the walks end or are in such a cycle.
C28_OnlyACycleHangs == pc = "hang" => Cyclic
C28_WalksEndOrCycle == <>(WalksEnded \/ (pc = "hang" /\ Cyclic))

\* the walk of the directory chain in a cycle; of the ministream chain
C28_DirCycleMet == pc = "hang" /\ NumFiles(File) = 0 /\ Cyclic
C28_MiniCycleMet == pc = "hang" /\ NumFiles(File) > 0 /\ Cyclic

\* --- C29
Named == ret.op = "fixName"
RawSlot == image.dirs[1]

\* C29: for every value of the name-length field fixName makes no
\* out-of-range access and builds the name from at most 32 code units.
C29_NameDecodingInRange ==
    Named => /\ pc # "panic"
             /\ 0 <= ret.n /\ ret.n <= ret.len /\ ret.len <= lenRawName
             /\ Len(File[0].Name) <= lenRawName

\* C29 where it holds: a length field of at most 67 (odd values and values
\* above 64 included) is decoded from the code units before index
\* nameLength / 2 - 1 <= 32, the first skipped when it is not printable.
C29_InRangeUpTo67 ==
    (Named /\ RawSlot.nameLength <= 67) =>
        /\ pc = "named"
        /\ ret.len <= lenRawName /\ ret.n <= ret.len
        /\ Len(File[0].Name) <= ret.len - ret.n
        /\ RawSlot.nameLength > 2 => ret.len = RawSlot.nameLength \div 2 - 1

\* a length field of 68 or more makes the slice expression panic
C29_PanicsFrom68 ==
    (Named /\ RawSlot.nameLength >= 68) => (pc = "panic" /\ ret.len > lenRawName)

\* an odd length above 64 decoded in range; the largest length field
C29_OddAbove64Met ==
    /\ Named /\ RawSlot.nameLength = 67 /\ pc = "named"
    /\ Len(File[0].Name) = lenRawName
C29_LargestLengthMet ==
    /\ Named /\ RawSlot.nameLength = 65535 /\ pc = "panic" /\ ret.len = 32766

====
